---------------------------- MODULE Spec2Model ----------------------------
(***************************************************************************)
(* The signage player (PlayerView) of TonProject001/signton: schedule      *)
(* resolution, the playback cursor, the advance timer and the rendered     *)
(* media element, driven by the in-memory mirrors kept by SignageProvider. *)
(*                                                                         *)
(* One action is one browser event (a snapshot push, an interval or        *)
(* timeout callback, a media element event, a click).  The event's state   *)
(* updates are followed, inside the same action, by React's re-render and  *)
(* by the effects whose dependency lists changed (Settle).                 *)
(***************************************************************************)
EXTENDS Integers, Sequences, FiniteSets, TLC

VARIABLES
    state,              \* SignageProvider: {mediaLibrary, playlists, devices}
    now,                \* the wall clock read by new Date()
    deviceId,           \* PlayerView useState: device id or Null
    activePlaylist,     \* PlayerView useState: Playlist or NoPlaylist
    currentMediaIndex,  \* PlayerView useState
    mediaError,         \* PlayerView useState
    timers,             \* pending window.setTimeout callbacks
    timerRef,           \* timerRef.current: 0, or the position in timers
    scheduleTimer,      \* the setInterval(checkSchedule, 2000) is armed
    rendered,           \* the media element mounted in the DOM
    last,               \* the last event and the branch its checkSchedule, or its call, took
    elapsed,            \* ms passed since the start (advances only where time is modelled)
    advances,           \* handleNext calls counted since the start (where time is modelled)
    mounted,            \* PlayerView is mounted
    db,                 \* the remote 'devices' collection: document id -> document
    calls,              \* the remote calls in flight (equal calls count once)
    alerts,             \* alert() dialogs shown by handleError
    beat,               \* the setInterval(heartbeat, 30000): armed, ms until due, ms since the last call
    pollClock           \* the schedule poll: ms until the interval is due, ms since checkSchedule ran

vars == <<state, now, deviceId, activePlaylist, currentMediaIndex, mediaError,
          timers, timerRef, scheduleTimer, rendered, last, elapsed, advances,
          mounted, db, calls, alerts, beat, pollClock>>

-----------------------------------------------------------------------------
(* Bounds of the model *)

MaxItems == 2
MaxCalls == 3
MaxAlerts == 1

(* Program constants *)

FallbackSeconds == 10
ErrorSkipMs == 3000
YouTubeIdLength == 11
PollMs == 2000
HeartbeatMs == 30000
SettleFuel == 4

Null == "null"
IMAGE == "IMAGE"
VIDEO == "VIDEO"

-----------------------------------------------------------------------------
(* Strings as sequences of characters *)

Digits == <<"0", "1", "2", "3", "4", "5", "6", "7", "8", "9">>

Lower == {"a", "b", "c", "d", "e", "f", "g", "h", "i", "j", "k", "l", "m",
          "n", "o", "p", "q", "r", "s", "t", "u", "v", "w", "x", "y", "z"}

Upper == {"A", "B", "C", "D", "E", "F", "G", "H", "I", "J", "K", "L", "M",
          "N", "O", "P", "Q", "R", "S", "T", "U", "V", "W", "X", "Y", "Z"}

WordChars == Lower \cup Upper \cup {Digits[i] : i \in 1..10} \cup {"_"}

\* The characters of an "HH:MM" string in code-unit order: '0' < ... < '9' < ':'
TimeChars == Digits \o <<":">>

CharCode(c) == CHOOSE i \in 1..Len(TimeChars) : TimeChars[i] = c

\* (mutant) s < t: the comparison excludes equal strings
RECURSIVE StrLess(_, _)
StrLess(s, t) ==
    IF t = <<>> THEN FALSE
    ELSE IF s = <<>> THEN TRUE
    ELSE IF Head(s) = Head(t) THEN StrLess(Tail(s), Tail(t))
    ELSE CharCode(Head(s)) < CharCode(Head(t))

\* s <= t for JavaScript strings (code-unit lexicographic order)
RECURSIVE StrLE(_, _)
StrLE(s, t) ==
    IF s = <<>> THEN TRUE
    ELSE IF t = <<>> THEN FALSE
    ELSE IF Head(s) = Head(t) THEN StrLE(Tail(s), Tail(t))
    ELSE CharCode(Head(s)) < CharCode(Head(t))

\* String(n).padStart(2, '0') for 0 <= n <= 99
PadStart2(n) == <<Digits[(n \div 10) + 1], Digits[(n % 10) + 1]>>

\* `${String(now.getHours()).padStart(2,'0')}:${String(now.getMinutes()).padStart(2,'0')}`
currentTimeOf(nw) == PadStart2(nw.hours) \o <<":">> \o PadStart2(nw.minutes)

\* Array.prototype.includes
Includes(arr, x) == \E i \in 1..Len(arr) : arr[i] = x

-----------------------------------------------------------------------------
\* getYouTubeId: the regular expression is a greedy prefix, group 1 (one of
\* the six alternatives below), group 2 (the longest run of characters other
\* than '#', '&' and '?') and a greedy suffix.

\* The alternatives of group 1.  "." is the regex wildcard, "\\w" the word class.
YouTubeAlternatives ==
    << <<"y", "o", "u", "t", "u", ".", "b", "e", "/">>,
       <<"v", "/">>,
       <<"u", "/", "\\w", "/">>,
       <<"e", "m", "b", "e", "d", "/">>,
       <<"w", "a", "t", "c", "h", "?", "v", "=">>,
       <<"&", "v", "=">> >>

TokenMatches(tok, c) ==
    IF tok = "." THEN TRUE
    ELSE IF tok = "\\w" THEN c \in WordChars
    ELSE tok = c

\* pattern pat matches url at position i
MatchesAt(url, i, pat) ==
    /\ i + Len(pat) - 1 <= Len(url)
    /\ \A k \in 1..Len(pat) : TokenMatches(pat[k], url[i + k - 1])

\* the length of the longest run of [^#&?] starting at position i
RECURSIVE RunLength(_, _)
RunLength(url, i) ==
    IF i > Len(url) \/ url[i] \in {"#", "&", "?"} THEN 0
    ELSE 1 + RunLength(url, i + 1)

\* the alternative of group 1 that matches at position i, or 0
AlternativeAt(url, i) ==
    IF \E k \in 1..Len(YouTubeAlternatives) : MatchesAt(url, i, YouTubeAlternatives[k])
    THEN CHOOSE k \in 1..Len(YouTubeAlternatives) : MatchesAt(url, i, YouTubeAlternatives[k])
    ELSE 0

\* the prefix is greedy: group 1 is the rightmost occurrence at or before i
RECURSIVE LastStart(_, _)
LastStart(url, i) ==
    IF i = 0 THEN 0
    ELSE IF AlternativeAt(url, i) # 0 THEN i
    ELSE LastStart(url, i - 1)

getYouTubeId(url) ==
    LET i == LastStart(url, Len(url))
    IN  IF i = 0 THEN <<>>
        ELSE LET from == i + Len(YouTubeAlternatives[AlternativeAt(url, i)])
                 match2 == SubSeq(url, from, from + RunLength(url, from) - 1)
             IN  IF Len(match2) = YouTubeIdLength THEN match2 ELSE <<>>

-----------------------------------------------------------------------------
(* The data model (types.ts is not part of the sources; the fields are     *)
(* those the player and the provider read and write).                      *)

NoSchedule == [days |-> <<>>, startTime |-> <<>>, endTime |-> <<>>, active |-> FALSE]
NoPlaylist == [id |-> Null, items |-> <<>>, schedule |-> NoSchedule]
NoItem     == [mediaId |-> Null, duration |-> 0]
NoMedia    == [id |-> Null, type |-> Null, url |-> <<>>, duration |-> 0]
NoDevice   == [id |-> Null, assignedPlaylistId |-> Null]
NoElement  == [tag |-> "none", key |-> Null, src |-> <<>>, ended |-> FALSE]

\* Array.prototype.find(pred) || null, on the three mirrors
RECURSIVE FindPlaylist(_, _)
FindPlaylist(playlists, id) ==
    IF playlists = <<>> THEN NoPlaylist
    ELSE IF Head(playlists).id = id THEN Head(playlists)
    ELSE FindPlaylist(Tail(playlists), id)

RECURSIVE FindDevice(_, _)
FindDevice(devices, id) ==
    IF devices = <<>> THEN NoDevice
    ELSE IF Head(devices).id = id THEN Head(devices)
    ELSE FindDevice(Tail(devices), id)

RECURSIVE FindMedia(_, _)
FindMedia(mediaLibrary, id) ==
    IF mediaLibrary = <<>> THEN NoMedia
    ELSE IF Head(mediaLibrary).id = id THEN Head(mediaLibrary)
    ELSE FindMedia(Tail(mediaLibrary), id)

getMediaById(st, id) == FindMedia(st.mediaLibrary, id)

-----------------------------------------------------------------------------
(* 2. Playlist Scheduler Logic *)

\* (mutant) schedule.active is not consulted
ScheduleMatchesInactive(p, nw) ==
    /\ Includes(p.schedule.days, nw.day)
    /\ StrLE(p.schedule.startTime, currentTimeOf(nw))
    /\ StrLE(currentTimeOf(nw), p.schedule.endTime)

\* (mutant) a window whose end is before its start runs over midnight
ScheduleMatchesOverMidnight(p, nw) ==
    /\ p.schedule.active
    /\ Includes(p.schedule.days, nw.day)
    /\ IF StrLE(p.schedule.startTime, p.schedule.endTime)
       THEN /\ StrLE(p.schedule.startTime, currentTimeOf(nw))
            /\ StrLE(currentTimeOf(nw), p.schedule.endTime)
       ELSE \/ StrLE(p.schedule.startTime, currentTimeOf(nw))
            \/ StrLE(currentTimeOf(nw), p.schedule.endTime)

\* the predicate of state.playlists.find in the schedule branch
ScheduleMatches(p, nw) ==
    /\ p.schedule.active
    /\ Includes(p.schedule.days, nw.day)
    /\ StrLE(p.schedule.startTime, currentTimeOf(nw))
    /\ StrLE(currentTimeOf(nw), p.schedule.endTime)

\* (mutant) the last matching playlist wins
RECURSIVE FindScheduledLast(_, _)
FindScheduledLast(playlists, nw) ==
    IF playlists = <<>> THEN NoPlaylist
    ELSE IF FindScheduledLast(Tail(playlists), nw) # NoPlaylist
         THEN FindScheduledLast(Tail(playlists), nw)
    ELSE IF ScheduleMatches(Head(playlists), nw) THEN Head(playlists)
    ELSE NoPlaylist

RECURSIVE FindScheduled(_, _)
FindScheduled(playlists, nw) ==
    IF playlists = <<>> THEN NoPlaylist
    ELSE IF ScheduleMatches(Head(playlists), nw) THEN Head(playlists)
    ELSE FindScheduled(Tail(playlists), nw)

\* (mutant) the schedule is consulted first, the assignment only when nothing matches
targetPlaylistScheduleFirst(st, dev, nw) ==
    IF FindScheduled(st.playlists, nw) # NoPlaylist
    THEN FindScheduled(st.playlists, nw)
    ELSE FindPlaylist(st.playlists, FindDevice(st.devices, dev).assignedPlaylistId)

\* (mutant) a dangling assignment falls back to the schedule
targetPlaylistFallsBack(st, dev, nw) ==
    LET deviceConfig == FindDevice(st.devices, dev)
    IN  IF /\ deviceConfig.assignedPlaylistId # Null
           /\ FindPlaylist(st.playlists, deviceConfig.assignedPlaylistId) # NoPlaylist
        THEN FindPlaylist(st.playlists, deviceConfig.assignedPlaylistId)
        ELSE FindScheduled(st.playlists, nw)

\* checkSchedule, first half: the target playlist
targetPlaylist(st, dev, nw) ==
    LET deviceConfig == FindDevice(st.devices, dev)
    IN  IF deviceConfig.assignedPlaylistId # Null
        THEN FindPlaylist(st.playlists, deviceConfig.assignedPlaylistId)
        ELSE FindScheduled(st.playlists, nw)

\* JSON.stringify(items): the members of every item, in order
RECURSIVE JSONstringify(_)
JSONstringify(items) ==
    IF items = <<>> THEN <<"[", "]">>
    ELSE <<"[", "{", "mediaId", Head(items).mediaId,
           "duration", ToString(Head(items).duration), "}">> \o Tail(JSONstringify(Tail(items)))

\* (mutant) the item lists are never found equal
scheduleBranchNeverSame(ps, target) ==
    IF target # NoPlaylist
    THEN IF ps.activePlaylist = NoPlaylist \/ ps.activePlaylist.id # target.id
         THEN "identity"
         ELSE "content"
    ELSE "none"

\* checkSchedule, second half: which branch of the update is taken.  ps is the
\* player's React state [deviceId, activePlaylist, currentMediaIndex, mediaError].
scheduleBranch(ps, target) ==
    IF target # NoPlaylist
    THEN IF ps.activePlaylist = NoPlaylist \/ ps.activePlaylist.id # target.id
         THEN "identity"
         ELSE IF JSONstringify(ps.activePlaylist.items) # JSONstringify(target.items)
              THEN "content"
              ELSE "same"
    ELSE "none"

\* (mutant) an edit of the item list restarts the playlist
applyTargetRestarts(ps, target) ==
    CASE scheduleBranch(ps, target) \in {"identity", "content"} ->
            [ps EXCEPT !.activePlaylist = target,
                       !.currentMediaIndex = 0,
                       !.mediaError = FALSE]
      [] scheduleBranch(ps, target) = "same" -> ps
      [] OTHER -> [ps EXCEPT !.activePlaylist = NoPlaylist]

\* (mutant) an edit of the active playlist keeps the index as it is
applyTargetKeepsIndex(ps, target) ==
    CASE scheduleBranch(ps, target) = "identity" ->
            [ps EXCEPT !.activePlaylist = target,
                       !.currentMediaIndex = 0,
                       !.mediaError = FALSE]
      [] scheduleBranch(ps, target) = "content" ->
            [ps EXCEPT !.activePlaylist = target,
                       !.mediaError = FALSE]
      [] scheduleBranch(ps, target) = "same" -> ps
      [] OTHER -> [ps EXCEPT !.activePlaylist = NoPlaylist]

\* checkSchedule, second half: the state updates of each branch
applyTarget(ps, target) ==
    CASE scheduleBranch(ps, target) = "identity" ->
            [ps EXCEPT !.activePlaylist = target,
                       !.currentMediaIndex = 0,
                       !.mediaError = FALSE]
      [] scheduleBranch(ps, target) = "content" ->
            [ps EXCEPT !.activePlaylist = target,
                       !.currentMediaIndex =
                           IF ps.currentMediaIndex >= Len(target.items)
                           THEN 0 ELSE ps.currentMediaIndex,
                       !.mediaError = FALSE]
      [] scheduleBranch(ps, target) = "same" -> ps
      [] OTHER -> [ps EXCEPT !.activePlaylist = NoPlaylist]

\* (mutant) without a target the active playlist is kept
checkScheduleKeeps(ps, st, nw) ==
    IF targetPlaylist(st, ps.deviceId, nw) = NoPlaylist THEN ps
    ELSE applyTarget(ps, targetPlaylist(st, ps.deviceId, nw))

checkSchedule(ps, st, nw) == applyTarget(ps, targetPlaylist(st, ps.deviceId, nw))

-----------------------------------------------------------------------------
(* 3. Playback Logic helpers (values computed by a render) *)

currentPlaylistItem(ps) ==
    IF ps.currentMediaIndex + 1 \in 1..Len(ps.activePlaylist.items)
    THEN ps.activePlaylist.items[ps.currentMediaIndex + 1]
    ELSE NoItem

currentMedia(item, st) ==
    IF item # NoItem THEN getMediaById(st, item.mediaId) ELSE NoMedia

youtubeId(media) ==
    IF media.type = VIDEO /\ media.url # <<>> THEN getYouTubeId(media.url) ELSE <<>>

\* a duration member that is missing (undefined); durations are >= 0 otherwise
Undefined == -1

\* what || takes for true among durations: neither undefined nor 0
Truthy(d) == d # Undefined /\ d # 0

\* (mutant) only a missing duration is passed over (?? in place of ||)
displayDurationMsNullish(item, media) ==
    (IF item.duration # Undefined THEN item.duration
     ELSE IF media.duration # Undefined THEN media.duration
     ELSE FallbackSeconds) * 1000

\* (currentPlaylistItem?.duration || currentMedia?.duration || 10) * 1000
displayDurationMs(item, media) ==
    (IF Truthy(item.duration) THEN item.duration
     ELSE IF Truthy(media.duration) THEN media.duration
     ELSE FallbackSeconds) * 1000

\* what a render of the player state ps over the mirrors st computes
Render(ps, st) ==
    LET item  == currentPlaylistItem(ps)
        media == currentMedia(item, st)
    IN  [deviceId |-> ps.deviceId,
         activePlaylist |-> ps.activePlaylist,
         mediaError |-> ps.mediaError,
         currentMedia |-> media,
         mediaId |-> media.id,
         mediaType |-> media.type,
         youtubeId |-> youtubeId(media),
         displayDurationMs |-> displayDurationMs(item, media)]

\* (mutant) the index is not wrapped
handleNextNoWrap(ps, closure) ==
    IF closure = NoPlaylist THEN ps
    ELSE [ps EXCEPT !.mediaError = FALSE,
                    !.currentMediaIndex = ps.currentMediaIndex + 1]

\* handleNext, as closed over the render's activePlaylist
handleNext(ps, closure) ==
    IF closure = NoPlaylist THEN ps
    ELSE [ps EXCEPT !.mediaError = FALSE,
                    !.currentMediaIndex =
                        IF Len(closure.items) > 0
                        THEN (ps.currentMediaIndex + 1) % Len(closure.items)
                        ELSE -1]   \* NaN

-----------------------------------------------------------------------------
(* 4. Timer Effect (Image & YouTube); r is a render *)

\* the dependency list of the timer effect
TimerDeps(r) ==
    <<r.mediaId, r.mediaType, r.youtubeId, r.displayDurationMs,
      r.activePlaylist, r.deviceId, r.mediaError>>

\* if (!deviceId || !mediaId || !activePlaylist) return;
TimerEffectReturnsEarly(r) ==
    r.deviceId = Null \/ r.mediaId = Null \/ r.activePlaylist = NoPlaylist

\* (mutant) every kind of media gets a timer
shouldUseTimerAlways(r) == TRUE

\* (mutant) a failed item keeps the policy of its kind
shouldUseTimerByKind(r) == r.mediaType = IMAGE \/ r.youtubeId # <<>>

shouldUseTimer(r) ==
    r.mediaType = IMAGE \/ r.youtubeId # <<>> \/ r.mediaError

\* (mutant) the pending timeout is not cancelled
clearTimeoutForgets(tm) == [tm EXCEPT !.timerRef = 0]

\* if (timerRef.current) window.clearTimeout(timerRef.current);
\* tm is [timers, timerRef]; a cleared or fired timer leaves timerRef at 0.
clearTimeout(tm) ==
    IF tm.timerRef = 0 THEN tm
    ELSE [timers |-> SubSeq(tm.timers, 1, tm.timerRef - 1)
                     \o SubSeq(tm.timers, tm.timerRef + 1, Len(tm.timers)),
          timerRef |-> 0]

\* timerRef.current = window.setTimeout(handleNext, duration);
setTimeout(tm, duration, closure) ==
    [timers |-> Append(tm.timers, [duration |-> duration, closure |-> closure]),
     timerRef |-> Len(tm.timers) + 1]

\* the body of the timer effect
timerEffect(r, tm) ==
    IF TimerEffectReturnsEarly(r) THEN tm
    ELSE IF shouldUseTimer(r)
         THEN setTimeout(clearTimeout(tm),
                         IF r.mediaError THEN ErrorSkipMs ELSE r.displayDurationMs,
                         r.activePlaylist)
         ELSE tm

\* the cleanup the previous run of the timer effect returned, if it got that far
timerCleanup(r, tm) ==
    IF TimerEffectReturnsEarly(r) THEN tm ELSE clearTimeout(tm)

-----------------------------------------------------------------------------
(* RENDER *)

\* which of the four screens a render returns
Screen(r) ==
    IF r.deviceId = Null THEN "setup"
    ELSE IF r.activePlaylist = NoPlaylist \/ r.currentMedia = NoMedia THEN "nocontent"
    ELSE IF r.mediaError THEN "error"
    ELSE "player"

\* the media element of the player screen
RenderOut(r) ==
    IF Screen(r) # "player" THEN NoElement
    ELSE IF r.currentMedia.type = IMAGE
         THEN [tag |-> "img", key |-> r.currentMedia.id,
               src |-> r.currentMedia.url, ended |-> FALSE]
    ELSE IF r.currentMedia.type = VIDEO
         THEN IF r.youtubeId # <<>>
              THEN [tag |-> "iframe", key |-> Null, src |-> r.youtubeId, ended |-> FALSE]
              ELSE [tag |-> "video", key |-> r.currentMedia.id,
                    src |-> r.currentMedia.url, ended |-> FALSE]
    ELSE NoElement

\* React's reconciliation: an element of the same tag and key is kept (and with
\* it a video's "ended" condition, unless its src changes); otherwise the old
\* element is unmounted and a new one mounted.
Mount(el, out) ==
    IF out.tag = el.tag /\ out.key = el.key /\ out.src = el.src THEN el ELSE out

-----------------------------------------------------------------------------
(* A commit: the effects whose dependencies changed, and the re-renders    *)
(* their state updates cause.  prev is the render of the commit before,    *)
(* ps/st the state of this one; pushed says that `state` is a new object;  *)
(* sys is [tm, scheduleTimer, rendered, branch], branch being the branch   *)
(* taken by the event's first run of checkSchedule ("-" before it).        *)

\* the one element of a singleton set (binds a computed value once)
Only(S) == CHOOSE x \in S : TRUE

RECURSIVE Settle(_, _, _, _, _, _, _)

\* the effects of the commit of render r of state ps
SettleEffects(prev, r, ps, st, pushed, sys, nw) ==
    LET schedRuns == \/ pushed
                     \/ prev.activePlaylist # r.activePlaylist
                     \/ prev.deviceId # r.deviceId
        timerRuns == TimerDeps(prev) # TimerDeps(r)
        \* cleanups of the effects that re-run
        tm1 == IF timerRuns THEN timerCleanup(prev, sys.tm) ELSE sys.tm
    IN  [\* effect 2: checkSchedule(); setInterval(checkSchedule, 2000)
         ps |-> IF schedRuns /\ ps.deviceId # Null THEN checkSchedule(ps, st, nw) ELSE ps,
         sys |-> [\* effect 4
                  tm |-> IF timerRuns THEN timerEffect(r, tm1) ELSE tm1,
                  scheduleTimer |-> IF schedRuns THEN ps.deviceId # Null
                                    ELSE sys.scheduleTimer,
                  rendered |-> Mount(sys.rendered, RenderOut(r)),
                  branch |-> IF sys.branch = "-" /\ schedRuns /\ ps.deviceId # Null
                             THEN scheduleBranch(ps, targetPlaylist(st, ps.deviceId, nw))
                             ELSE sys.branch]]

Settle(prev, ps, st, pushed, sys, nw, fuel) ==
    Only({ Only({ IF out.ps = ps \/ fuel = 0
                  THEN out
                  ELSE Settle(r, out.ps, st, FALSE, out.sys, nw, fuel - 1)
                  : out \in {SettleEffects(prev, r, ps, st, pushed, sys, nw)} })
           : r \in {Render(ps, st)} })

-----------------------------------------------------------------------------
(* The inputs: what the remote store can push, and the wall clock *)

ImageUrlA == <<"d", "a", "t", "a", ":", "a">>
ImageUrlB == <<"d", "a", "t", "a", ":", "b">>
Mp4Url == <<"h", "t", "t", "p", ":", "/", "/", "x", ".", "c", "o", "/", "a", ".", "m", "p", "4">>
YouTubeUrl == <<"h", "t", "t", "p", "s", ":", "/", "/", "y", "o", "u", "t", "u", ".", "b", "e", "/", "d", "Q", "w", "4", "w", "9", "W", "g", "X", "c", "Q">>

\* handleConfirmUpload stores images with duration 10, handleAddVideo videos with 30
ImageA == [id |-> "a", type |-> IMAGE, url |-> ImageUrlA, duration |-> 10]
ImageB == [id |-> "b", type |-> IMAGE, url |-> ImageUrlB, duration |-> 10]
Mp4A == [id |-> "a", type |-> VIDEO, url |-> Mp4Url, duration |-> 30]
YouTubeA == [id |-> "a", type |-> VIDEO, url |-> YouTubeUrl, duration |-> 30]

\* media "a" is absent, an image, a direct video or a YouTube video
MediaSnapshots == {<<>>, <<ImageB>>, <<ImageA, ImageB>>, <<Mp4A, ImageB>>, <<YouTubeA, ImageB>>}

T0600 == <<"0", "6", ":", "0", "0">>
T2200 == <<"2", "2", ":", "0", "0">>

Daily == [days |-> <<0, 1, 2, 3, 4, 5, 6>>, startTime |-> T0600, endTime |-> T2200,
          active |-> TRUE]

Items == {[mediaId |-> m, duration |-> 5] : m \in {"a", "b"}}

ItemLists == UNION {[1..n -> Items] : n \in 0..MaxItems}

P1(items) == [id |-> "p1", items |-> items, schedule |-> Daily]
P2 == [id |-> "p2", items |-> <<[mediaId |-> "b", duration |-> 5]>>, schedule |-> Daily]

\* a snapshot lists the documents in document-id order
PlaylistSnapshots ==
    {<<>>, <<P2>>} \cup {<<P1(l)>> : l \in ItemLists} \cup {<<P1(l), P2>> : l \in ItemLists}

DeviceIds == {"d1"}

Device(id, assigned) == [id |-> id, assignedPlaylistId |-> assigned]

DeviceSnapshots == {<<>>, <<Device("d1", Null)>>, <<Device("d1", "p2")>>}

\* inside and outside the 06:00-22:00 window
ClockValues == {[day |-> 1, hours |-> 12, minutes |-> 0],
                [day |-> 1, hours |-> 23, minutes |-> 30]}

-----------------------------------------------------------------------------
(* The remote device registry and the calls made to it.  A call is in      *)
(* flight from the moment it is issued until the store has answered it;    *)
(* the calls in flight are answered in any order.                          *)

\* the document of an id that has none, and the continuation of a call that returned
NoDoc == [id |-> Null, name |-> <<>>, location |-> Null, status |-> Null,
          assignedPlaylistId |-> Null, lastPing |-> 0]
NoCall == [fn |-> Null, coll |-> Null, pc |-> Null, id |-> Null, data |-> NoDoc]

\* (mutant) the new device is assigned the playlist p2
newDeviceAssigned(id, location, t) ==
    [id |-> id, name |-> <<"Device ", id>>, location |-> location, status |-> "online",
     assignedPlaylistId |-> "p2", lastPing |-> t]

\* the newDevice of handleSaveDeviceId ('Unknown') and of initRegister
\* ('Auto-Registered'), built at time t
newDevice(id, location, t) ==
    [id |-> id, name |-> <<"Device ", id>>, location |-> location, status |-> "online",
     assignedPlaylistId |-> Null, lastPing |-> t]

\* setDoc(ref, data): the whole document becomes data
setDoc(d, id, data) == [d EXCEPT ![id] = data]

\* updateDoc(ref, fields) on an existing document: the named fields change
updateDoc(d, id, fields) ==
    [d EXCEPT ![id] = [f \in DOMAIN d[id] |->
                          IF f \in DOMAIN fields THEN fields[f] ELSE d[id][f]]]

\* registerDevice(device) up to its first await, getDoc(deviceRef)
registerDevice(device) ==
    [fn |-> "registerDevice", coll |-> "devices", pc |-> "getDoc",
     id |-> device.id, data |-> device]

\* (mutant) the heartbeat writes the assignment of a new device as well
heartbeatWithAssignment(id, t) ==
    [fn |-> "heartbeat", coll |-> "devices", pc |-> "updateDoc",
     id |-> id, data |-> [lastPing |-> t, status |-> "online",
                          assignedPlaylistId |-> Null]]

\* heartbeat(id) at time t, up to its await
heartbeat(id, t) ==
    [fn |-> "heartbeat", coll |-> "devices", pc |-> "updateDoc",
     id |-> id, data |-> [lastPing |-> t, status |-> "online"]]

\* updateDevicePlaylist(deviceId, playlistId) up to its await
updateDevicePlaylist(id, playlistId) ==
    [fn |-> "updateDevicePlaylist", coll |-> "devices", pc |-> "updateDoc",
     id |-> id, data |-> [assignedPlaylistId |-> playlistId]]

\* addMedia, removeMedia, savePlaylist and removePlaylist up to their await
CatalogCalls ==
    {[fn |-> c[1], coll |-> c[2], pc |-> c[3], id |-> c[4], data |-> NoDoc] :
        c \in {<<"addMedia", "media", "setDoc", "a">>,
               <<"removeMedia", "media", "deleteDoc", "a">>,
               <<"savePlaylist", "playlists", "setDoc", "p1">>,
               <<"removePlaylist", "playlists", "deleteDoc", "p1">>}}

\* (mutant) an update of a missing document creates it, as setDoc with merge does
serveUpserting(d, c, t) ==
    IF c.pc = "updateDoc" /\ c.coll = "devices"
    THEN [db |-> IF d[c.id].id = Null
                 THEN setDoc(d, c.id, [f \in DOMAIN NoDoc |->
                                          IF f \in DOMAIN c.data THEN c.data[f]
                                          ELSE IF f = "id" THEN c.id ELSE NoDoc[f]])
                 ELSE updateDoc(d, c.id, c.data),
          threw |-> FALSE, next |-> NoCall]
    ELSE [db |-> d, threw |-> FALSE, next |-> NoCall]

\* the store d answers the call c at time t: the store afterwards, whether the
\* awaited promise rejected, and what the function does next (NoCall: it returns)
serve(d, c, t) ==
    IF c.coll # "devices"
    THEN [db |-> d, threw |-> FALSE, next |-> NoCall]
    ELSE IF c.pc = "getDoc"
    THEN [db |-> d, threw |-> FALSE,
          next |-> IF d[c.id].id = Null    \* !docSnap.exists()
                   THEN [c EXCEPT !.pc = "setDoc"]
                   ELSE [c EXCEPT !.pc = "updateDoc",
                                  !.data = [status |-> "online", lastPing |-> t]]]
    ELSE IF c.pc = "setDoc"
    THEN [db |-> setDoc(d, c.id, c.data), threw |-> FALSE, next |-> NoCall]
    ELSE IF d[c.id].id = Null              \* updateDoc: no document to update
    THEN [db |-> d, threw |-> TRUE, next |-> NoCall]
    ELSE [db |-> updateDoc(d, c.id, c.data), threw |-> FALSE, next |-> NoCall]

\* (mutant) a rejected call is issued again
catchRetries(cs, c, r) ==
    IF r.threw THEN cs
    ELSE (cs \ {c}) \cup (IF r.next.fn # Null THEN {r.next} ELSE {})

\* the calls in flight after call c got the answer r: the function goes on to
\* its next await, or returns, or its catch block runs and it returns
catch(cs, c, r) ==
    (cs \ {c}) \cup (IF ~r.threw /\ r.next.fn # Null THEN {r.next} ELSE {})

\* handleError is the catch block of the admin-side functions only: one alert
handleError(fn) ==
    IF fn \in {"addMedia", "removeMedia", "savePlaylist", "removePlaylist",
               "updateDevicePlaylist"}
    THEN 1 ELSE 0

\* (mutant) the effect leaves the first heartbeat to the interval
heartbeatEffectLate(cs, id, t) ==
    cs \cup {registerDevice(newDevice(id, "Auto-Registered", t))}

\* the body of the heartbeat effect for device id at time t: initRegister(),
\* setInterval(...), heartbeat(deviceId)
heartbeatEffect(cs, id, t) ==
    cs \cup {registerDevice(newDevice(id, "Auto-Registered", t)), heartbeat(id, t)}

\* (mutant) the effect arms a new interval without calling checkSchedule
schedulerEffectArmsOnly(clock) == [due |-> PollMs, since |-> clock.since]

\* the body of the schedule effect: checkSchedule() and a new interval
schedulerEffect(clock) == [due |-> PollMs, since |-> 0]

\* the documents of the collection as a snapshot lists them
Mirror(d) ==
    LET present == SelectSeq(<<"d1">>, LAMBDA i : d[i].id # Null)
    IN  [k \in 1..Len(present) |-> d[present[k]]]

-----------------------------------------------------------------------------
(* The state machine *)

PS == [deviceId |-> deviceId, activePlaylist |-> activePlaylist,
       currentMediaIndex |-> currentMediaIndex, mediaError |-> mediaError]

TM == [timers |-> timers, timerRef |-> timerRef]

\* the event op has produced ps1, st1 (pushed: a new `state` object), tm1 and el1.
\* Without a mounted PlayerView only the provider's setState of a push happens.
CommitState(op, branch, ps1, st1, pushed, tm1, el1) ==
    IF mounted
    THEN \E ev \in {[prev |-> Render(PS, state), ps |-> ps1, st |-> st1,
                     sys |-> [tm |-> tm1, scheduleTimer |-> scheduleTimer,
                              rendered |-> el1, branch |-> branch]]} :
         \E r \in {Settle(ev.prev, ev.ps, ev.st, pushed, ev.sys, now, SettleFuel)} :
            /\ state' = ev.st
            /\ deviceId' = r.ps.deviceId
            /\ activePlaylist' = r.ps.activePlaylist
            /\ currentMediaIndex' = r.ps.currentMediaIndex
            /\ mediaError' = r.ps.mediaError
            /\ timers' = r.sys.tm.timers
            /\ timerRef' = r.sys.tm.timerRef
            /\ scheduleTimer' = r.sys.scheduleTimer
            /\ rendered' = r.sys.rendered
            /\ last' = [op |-> op, branch |-> r.sys.branch]
            \* the poll interval: its callback ran, or the schedule effect ran again
            /\ \E clock \in {IF op = "poll" THEN [due |-> PollMs, since |-> 0]
                             ELSE pollClock} :
                  pollClock' = IF r.ps.deviceId = Null THEN [due |-> PollMs, since |-> 0]
                               ELSE IF \/ pushed
                                       \/ r.ps.activePlaylist # activePlaylist
                                       \/ r.ps.deviceId # deviceId
                                    THEN schedulerEffect(clock)
                                    ELSE clock
            /\ UNCHANGED <<now, mounted>>
    ELSE /\ pushed
         /\ state' = st1
         /\ last' = [op |-> op, branch |-> "-"]
         /\ UNCHANGED <<now, mounted, deviceId, activePlaylist, currentMediaIndex,
                        mediaError, timers, timerRef, scheduleTimer, rendered, pollClock>>

\* an event of a specification that does not measure time
Commit(op, branch, ps1, st1, pushed, tm1, el1) ==
    /\ CommitState(op, branch, ps1, st1, pushed, tm1, el1)
    /\ UNCHANGED <<elapsed, advances, db, calls, alerts, beat>>

\* the effects of the mount have run and the registry holds no document yet
Unregistered ==
    /\ mounted = TRUE
    /\ db = [i \in DeviceIds |-> NoDoc]
    /\ calls = IF deviceId = Null THEN {} ELSE heartbeatEffect({}, deviceId, 0)
    /\ alerts = 0
    /\ beat = [armed |-> deviceId # Null, due |-> HeartbeatMs, since |-> 0]
    /\ pollClock = [due |-> PollMs, since |-> 0]

\* PlayerView is mounted in a browser that keeps no device id in localStorage,
\* before any snapshot (the other specifications start with a stored id)
Init ==
    /\ state = [mediaLibrary |-> <<>>, playlists |-> <<>>, devices |-> <<>>]
    /\ now \in ClockValues
    /\ deviceId = Null
    /\ activePlaylist = NoPlaylist
    /\ currentMediaIndex = 0
    /\ mediaError = FALSE
    /\ timers = <<>>
    /\ timerRef = 0
    /\ scheduleTimer = (deviceId # Null)
    /\ rendered = NoElement
    /\ last = [op |-> "mount", branch |-> IF deviceId # Null THEN "none" ELSE "-"]
    /\ elapsed = 0
    /\ advances = 0
    /\ Unregistered

\* onSnapshot(collection(db, 'media'), ...)
PushMedia(items) ==
    Commit("pushMedia", "-", PS, [state EXCEPT !.mediaLibrary = items], TRUE, TM, rendered)

\* (mutant) the callback spreads the state it closed over when it was subscribed
PushPlaylistsStale(items) ==
    Commit("pushPlaylists", "-", PS,
           [mediaLibrary |-> <<>>, playlists |-> items, devices |-> <<>>], TRUE, TM, rendered)

\* onSnapshot(collection(db, 'playlists'), ...)
PushPlaylists(items) ==
    Commit("pushPlaylists", "-", PS, [state EXCEPT !.playlists = items], TRUE, TM, rendered)

\* (mutant) the timer effect runs again after every devices push
PushDevicesRestartsTimer(items) ==
    Commit("pushDevices", "-", PS, [state EXCEPT !.devices = items], TRUE,
           IF TimerEffectReturnsEarly(Render(PS, state)) THEN TM
           ELSE timerEffect(Render(PS, state), timerCleanup(Render(PS, state), TM)),
           rendered)

\* onSnapshot(collection(db, 'devices'), ...)
PushDevices(items) ==
    Commit("pushDevices", "-", PS, [state EXCEPT !.devices = items], TRUE, TM, rendered)

\* time passes
ClockAdvance(t) ==
    /\ now' = t
    /\ now' # now
    /\ last' = [op |-> "clock", branch |-> "-"]
    /\ UNCHANGED <<state, deviceId, activePlaylist, currentMediaIndex, mediaError,
                   timers, timerRef, scheduleTimer, rendered, elapsed, advances,
                   mounted, db, calls, alerts, beat, pollClock>>

\* the callback of setInterval(checkSchedule, 2000)
PollTick ==
    /\ scheduleTimer
    /\ Commit("poll", scheduleBranch(PS, targetPlaylist(state, deviceId, now)),
              checkSchedule(PS, state, now), state, FALSE, TM, rendered)

\* the callback of the pending timeout k: handleNext
FireState(k) ==
    /\ k \in 1..Len(timers)
    /\ CommitState("timer", "-", handleNext(PS, timers[k].closure), state, FALSE,
              [timers |-> SubSeq(timers, 1, k - 1) \o SubSeq(timers, k + 1, Len(timers)),
               timerRef |-> IF timerRef = k THEN 0
                            ELSE IF timerRef > k THEN timerRef - 1 ELSE timerRef],
              rendered)

TimerFire(k) == FireState(k) /\ UNCHANGED <<elapsed, advances, db, calls, alerts, beat>>

\* (mutant) the handler advances for every video
onVideoEndedUnguarded(ps, r) == handleNext(ps, r.activePlaylist)

\* the body of onVideoEnded under the render r: if (!youtubeId) handleNext()
onVideoEndedHandler(ps, r) ==
    IF r.youtubeId = <<>> THEN handleNext(ps, r.activePlaylist) ELSE ps

\* the video element reaches the end of its stream
onVideoEnded ==
    /\ rendered.tag = "video"
    /\ ~rendered.ended
    /\ Commit("ended", "-", onVideoEndedHandler(PS, Render(PS, state)),
              state, FALSE, TM, [rendered EXCEPT !.ended = TRUE])

\* the img or video element cannot load or play its src: setMediaError(true)
onError ==
    /\ rendered.tag \in {"img", "video"}
    /\ Commit("error", "-", [PS EXCEPT !.mediaError = TRUE], state, FALSE, TM, rendered)

\* the setup screen's save button: setDeviceId(newId), registerDevice(newDevice),
\* and the heartbeat effect of the commit that follows
handleSaveDeviceId(newId) ==
    /\ deviceId = Null
    /\ Cardinality(calls) + 3 <= MaxCalls
    /\ CommitState("save", "-", [PS EXCEPT !.deviceId = newId], state, FALSE, TM, rendered)
    /\ calls' = heartbeatEffect(
                    calls \cup {registerDevice(newDevice(newId, "Unknown", elapsed))},
                    newId, elapsed)
    /\ beat' = [armed |-> TRUE, due |-> HeartbeatMs, since |-> 0]
    /\ UNCHANGED <<elapsed, advances, db, alerts>>

\* (mutant) the reset also deletes the device's document
handleResetDeviceDeletes ==
    /\ Screen(Render(PS, state)) \in {"nocontent", "player"}
    /\ CommitState("reset", "-", [PS EXCEPT !.deviceId = Null], state, FALSE, TM, rendered)
    /\ beat' = [armed |-> FALSE, due |-> HeartbeatMs, since |-> 0]
    /\ db' = [db EXCEPT ![deviceId] = NoDoc]
    /\ UNCHANGED <<elapsed, advances, calls, alerts>>

\* the reset button of the no-content and player screens, confirmed:
\* setDeviceId(null) and the cleanups of the commit that follows
handleResetDevice ==
    /\ Screen(Render(PS, state)) \in {"nocontent", "player"}
    /\ CommitState("reset", "-", [PS EXCEPT !.deviceId = Null], state, FALSE, TM, rendered)
    /\ beat' = [armed |-> FALSE, due |-> HeartbeatMs, since |-> 0]
    /\ UNCHANGED <<elapsed, advances, db, calls, alerts>>

\* the playback engine under pushes of every collection
Next ==
    \/ \E items \in MediaSnapshots : PushMedia(items)
    \/ \E items \in PlaylistSnapshots : PushPlaylists(items)
    \/ \E items \in DeviceSnapshots : PushDevices(items)
    \/ \E t \in ClockValues : ClockAdvance(t)
    \/ PollTick
    \/ \E k \in 1..Len(timers) : TimerFire(k)
    \/ onVideoEnded
    \/ onError
    \/ \E newId \in DeviceIds : handleSaveDeviceId(newId)

Spec == Init /\ [][Next]_vars

-----------------------------------------------------------------------------
(* The scheduler under every schedule, assignment, weekday and time *)

OverNight == [Daily EXCEPT !.startTime = T2200, !.endTime = T0600]

Schedules ==
    {[w EXCEPT !.active = act, !.days = days] :
        w \in {Daily, OverNight}, act \in BOOLEAN, days \in {<<1>>, <<0, 1, 2, 3, 4, 5, 6>>}}

SchedPlaylistSnapshots ==
    LET p1s == {[P1(<<[mediaId |-> "a", duration |-> 5]>>) EXCEPT !.schedule = sch] :
                   sch \in Schedules}
        p2s == {P2}
    IN  {<<>>} \cup {<<p>> : p \in p1s \cup p2s} \cup {<<p, q>> : p \in p1s, q \in p2s}

SchedDeviceSnapshots ==
    {<<>>, <<Device("d1", Null)>>, <<Device("d1", "p1")>>, <<Device("d1", "p2")>>}

\* Sunday and Monday, around both ends of the 06:00-22:00 window
SchedClockValues ==
    {[day |-> d, hours |-> t[1], minutes |-> t[2]] :
        d \in {0, 1}, t \in {<<5, 59>>, <<6, 0>>, <<22, 0>>, <<22, 1>>}}

InitSched ==
    /\ state = [mediaLibrary |-> <<ImageA, ImageB>>, playlists |-> <<>>, devices |-> <<>>]
    /\ now \in SchedClockValues
    /\ deviceId \in DeviceIds
    /\ activePlaylist = NoPlaylist
    /\ currentMediaIndex = 0
    /\ mediaError = FALSE
    /\ timers = <<>>
    /\ timerRef = 0
    /\ scheduleTimer = TRUE
    /\ rendered = NoElement
    /\ last = [op |-> "mount", branch |-> "none"]
    /\ elapsed = 0
    /\ advances = 0
    /\ Unregistered

NextSched ==
    \/ \E items \in SchedPlaylistSnapshots : PushPlaylists(items)
    \/ \E items \in SchedDeviceSnapshots : PushDevices(items)
    \/ \E t \in SchedClockValues : ClockAdvance(t)
    \/ PollTick
    \/ \E k \in 1..Len(timers) : TimerFire(k)
    \/ onError

SpecSched == InitSched /\ [][NextSched]_vars

-----------------------------------------------------------------------------
(* One playlist of a registered player while the catalog loses and regains media *)

FairMediaSnapshots == {<<ImageA, ImageB>>, <<ImageB>>, <<Mp4A, ImageB>>}

FairPlaylistSnapshots ==
    {<<P1(l)>> : l \in {<<[mediaId |-> "a", duration |-> 5], [mediaId |-> "b", duration |-> 5]>>,
                        <<[mediaId |-> "b", duration |-> 5], [mediaId |-> "a", duration |-> 5]>>,
                        <<[mediaId |-> "b", duration |-> 5]>>}}

InitFair ==
    /\ state = [mediaLibrary |-> <<ImageA, ImageB>>, playlists |-> <<>>, devices |-> <<>>]
    /\ now = [day |-> 1, hours |-> 12, minutes |-> 0]
    /\ deviceId \in DeviceIds
    /\ activePlaylist = NoPlaylist
    /\ currentMediaIndex = 0
    /\ mediaError = FALSE
    /\ timers = <<>>
    /\ timerRef = 0
    /\ scheduleTimer = TRUE
    /\ rendered = NoElement
    /\ last = [op |-> "mount", branch |-> "none"]
    /\ elapsed = 0
    /\ advances = 0
    /\ Unregistered

NextFair ==
    \/ \E items \in FairMediaSnapshots : PushMedia(items)
    \/ \E items \in FairPlaylistSnapshots : PushPlaylists(items)
    \/ PollTick
    \/ \E k \in 1..Len(timers) : TimerFire(k)
    \/ onVideoEnded
    \/ onError

\* timeouts and intervals that are armed fire; a video that plays reaches its end
FairSpec ==
    /\ InitFair
    /\ [][NextFair]_vars
    /\ WF_vars(\E k \in 1..Len(timers) : TimerFire(k))
    /\ WF_vars(PollTick)
    /\ WF_vars(onVideoEnded)

-----------------------------------------------------------------------------
(* Properties *)

\* the player has an identity and a playlist is active
Active == deviceId # Null /\ activePlaylist # NoPlaylist

\* the current item of the active playlist references no media of the catalog
Dangling ==
    /\ Active
    /\ currentMediaIndex < Len(activePlaylist.items)
    /\ \A k \in 1..Len(state.mediaLibrary) :
          state.mediaLibrary[k].id # activePlaylist.items[currentMediaIndex + 1].mediaId

\* C1: a device whose assignedPlaylistId references a playlist of the store has
\* exactly that playlist as target and as active playlist, whatever the day,
\* the time, that playlist's schedule and the other playlists.
C1_ForcedAssignmentSelected ==
    \A i \in 1..Len(state.devices), j \in 1..Len(state.playlists) :
        (/\ deviceId # Null
         /\ state.devices[i].id = deviceId
         /\ state.devices[i].assignedPlaylistId = state.playlists[j].id)
        => /\ targetPlaylist(state, deviceId, now) = state.playlists[j]
           /\ activePlaylist.id = state.playlists[j].id
           /\ activePlaylist.items = state.playlists[j].items

\* C1 witness: the assigned playlist p1 is inactive or outside its window or
\* day, p2 matches the schedule now, and p1 is the active playlist
C1_Witness ==
    /\ deviceId = "d1"
    /\ state.devices = <<Device("d1", "p1")>>
    /\ Len(state.playlists) = 2
    /\ ~ScheduleMatches(state.playlists[1], now)
    /\ ~state.playlists[1].schedule.active
    /\ ScheduleMatches(state.playlists[2], now)
    /\ activePlaylist.id = "p1"
    /\ last.op = "poll"

\* C2: a device whose assignedPlaylistId references no playlist of the store
\* has no target and no active playlist, also when another playlist matches
\* the schedule.
C2_DanglingAssignmentIsNone ==
    \A i \in 1..Len(state.devices) :
        (/\ deviceId # Null
         /\ state.devices[i].id = deviceId
         /\ state.devices[i].assignedPlaylistId # Null
         /\ \A j \in 1..Len(state.playlists) :
               state.playlists[j].id # state.devices[i].assignedPlaylistId)
        => /\ targetPlaylist(state, deviceId, now) = NoPlaylist
           /\ activePlaylist = NoPlaylist

\* C2 witness: p1 is assigned and deleted, p2 matches the schedule now, and
\* nothing is active after a re-evaluation
C2_Witness ==
    /\ deviceId = "d1"
    /\ state.devices = <<Device("d1", "p1")>>
    /\ Len(state.playlists) = 1
    /\ state.playlists[1].id = "p2"
    /\ ScheduleMatches(state.playlists[1], now)
    /\ activePlaylist = NoPlaylist
    /\ last.op = "poll"

\* C3 (as claimed): whenever the identity of the active playlist changes (to
\* another playlist, from none, or to none), the index is 0 and the
\* media-failed flag is clear afterwards.
C3_IdentityChangeResets ==
    [][activePlaylist'.id # activePlaylist.id
       => currentMediaIndex' = 0 /\ ~mediaError']_vars

\* C4: when the active playlist keeps its id and gets another item list, the
\* index is kept if it is below the new item count and is 0 otherwise.
C4_ContentChangeKeepsIndex ==
    [][(/\ activePlaylist # NoPlaylist
        /\ activePlaylist'.id = activePlaylist.id
        /\ activePlaylist'.items # activePlaylist.items)
       => currentMediaIndex' = IF currentMediaIndex < Len(activePlaylist'.items)
                               THEN currentMediaIndex ELSE 0]_vars

\* C4 witness: a re-evaluation took the content-changed branch with the index
\* past 0 and still in range
C4_Witness ==
    /\ last.op = "pushPlaylists"
    /\ last.branch = "content"
    /\ currentMediaIndex >= 1
    /\ currentMediaIndex < Len(activePlaylist.items)

\* a re-evaluation: a poll tick, or the scheduler effect re-running
ReEvaluated == last'.op \in {"poll", "pushMedia", "pushPlaylists", "pushDevices", "save"}

\* C5: a re-evaluation that resolves the id and the item list of the active
\* playlist leaves the active playlist, the index and the media-failed flag
\* unchanged; and checkSchedule applied twice gives what it gives applied once.
C5_SameTargetIsNoOp ==
    /\ [][(/\ ReEvaluated
           /\ deviceId' # Null
           /\ activePlaylist # NoPlaylist
           /\ targetPlaylist(state', deviceId', now').id = activePlaylist.id
           /\ targetPlaylist(state', deviceId', now').items = activePlaylist.items)
          => /\ activePlaylist' = activePlaylist
             /\ currentMediaIndex' = currentMediaIndex
             /\ mediaError' = mediaError]_vars
    /\ [](deviceId # Null =>
            checkSchedule(checkSchedule(PS, state, now), state, now)
                = checkSchedule(PS, state, now))

\* C5 witness: a poll tick found the same playlist and item list while the
\* index was past 0 and the media-failed flag set
C5_Witness ==
    /\ last.op = "poll"
    /\ last.branch = "same"
    /\ currentMediaIndex >= 1
    /\ mediaError

\* C6 (as claimed): a current item whose media is absent from the catalog is
\* skipped: the index eventually moves on (or the item stops dangling).
C6_DanglingItemSkipped ==
    \A i \in 0..(MaxItems - 1) :
        (Dangling /\ currentMediaIndex = i /\ Len(activePlaylist.items) >= 2)
            ~> (~Dangling \/ currentMediaIndex # i)

\* C7 (as claimed): the engine never stays in Failed: a set media-failed flag
\* of an active playlist is eventually cleared.
C7_FailedEventuallyLeaves ==
    (Active /\ mediaError) ~> ~mediaError

\* C8: an advance at index i of a playlist of N >= 1 items sets the index to
\* (i + 1) mod N.
C8_AdvanceWraps ==
    [][(last'.op \in {"timer", "ended"} /\ Len(activePlaylist.items) >= 1)
       => currentMediaIndex' = (currentMediaIndex + 1) % Len(activePlaylist.items)]_vars

\* C8 witness: a timer advanced the last item of a playlist of at least two
\* items to index 0
C8_Witness ==
    /\ last.op = "timer"
    /\ Active
    /\ Len(activePlaylist.items) >= 2
    /\ currentMediaIndex = 0

\* the screen shows the current item (it is in the catalog and has not failed)
Playing == Screen(Render(PS, state)) = "player"

\* C9 (as claimed): while a playlist of renderable items is active, playback
\* never stalls: a timer-driven current item has an advance timer pending and
\* a direct video is being presented (it has not run to its end).
C9_PlaybackNeverStalls ==
    Playing =>
        /\ shouldUseTimer(Render(PS, state)) => timers # <<>>
        /\ ~shouldUseTimer(Render(PS, state)) => rendered.tag = "video" /\ ~rendered.ended

\* C10 (as claimed): whenever the index moves to another position whose item
\* is timer-driven, an advance timer is armed for it.
C10_TimerArmedOnItemChange ==
    [][(/\ currentMediaIndex' # currentMediaIndex
        /\ Playing'
        /\ shouldUseTimer(Render(PS, state))')
       => timers' # <<>>]_vars


\* C11: at most one advance timer is pending in every reachable state, and the
\* one that is pending is the one timerRef holds: arming a timer has cancelled
\* the timer that was pending before.
C11_OneTimerPending ==
    /\ Len(timers) <= 1
    /\ timers # <<>> => timerRef = 1

\* C11 witness: the media failed while the item's display timer was pending;
\* only the 3000 ms timer is pending afterwards
C11_Witness ==
    /\ last.op = "error"
    /\ mediaError
    /\ Len(timers) = 1
    /\ timers[1].duration = ErrorSkipMs
    /\ ErrorSkipMs # Render([PS EXCEPT !.mediaError = FALSE], state).displayDurationMs

-----------------------------------------------------------------------------
(* Sixteen seconds of a playlist of three images shown 5 s each; time passes   *)
(* in steps of one second and a pending timeout counts down in its duration.   *)

ImageUrlC == <<"d", "a", "t", "a", ":", "c">>
ImageC == [id |-> "c", type |-> IMAGE, url |-> ImageUrlC, duration |-> 10]

TimedItemLists == [1..3 -> {[mediaId |-> m, duration |-> 5] : m \in {"a", "b", "c"}}]

TimedStore(l) ==
    [mediaLibrary |-> <<ImageA, ImageB, ImageC>>,
     playlists |-> <<P1(l)>>,
     devices |-> <<Device("d1", Null)>>]

Noon == [day |-> 1, hours |-> 12, minutes |-> 0]

\* the player state of a mounted PlayerView with a stored device id
MountedPS ==
    [deviceId |-> "d1", activePlaylist |-> NoPlaylist,
     currentMediaIndex |-> 0, mediaError |-> FALSE]

\* the snapshots have arrived and the playlist has just become active
InitTimed ==
    \E l \in TimedItemLists :
    \E r \in {Settle(Render(MountedPS, TimedStore(l)), MountedPS, TimedStore(l), TRUE,
                     [tm |-> [timers |-> <<>>, timerRef |-> 0], scheduleTimer |-> FALSE,
                      rendered |-> NoElement, branch |-> "-"],
                     Noon, SettleFuel)} :
        /\ state = TimedStore(l)
        /\ now = Noon
        /\ deviceId = r.ps.deviceId
        /\ activePlaylist = r.ps.activePlaylist
        /\ currentMediaIndex = r.ps.currentMediaIndex
        /\ mediaError = r.ps.mediaError
        /\ timers = r.sys.tm.timers
        /\ timerRef = r.sys.tm.timerRef
        /\ scheduleTimer = r.sys.scheduleTimer
        /\ rendered = r.sys.rendered
        /\ last = [op |-> "pushPlaylists", branch |-> r.sys.branch]
        /\ elapsed = 0
        /\ advances = 0
        /\ Unregistered

\* one second passes; a timeout that is due fires before more time passes
Tick ==
    /\ elapsed < 16 * 1000
    /\ \A k \in 1..Len(timers) : timers[k].duration >= 1000
    /\ elapsed' = elapsed + 1000
    /\ timers' = [k \in 1..Len(timers) |->
                     [timers[k] EXCEPT !.duration = timers[k].duration - 1000]]
    /\ last' = [op |-> "tick", branch |-> "-"]
    /\ UNCHANGED <<state, now, deviceId, activePlaylist, currentMediaIndex, mediaError,
                   timerRef, scheduleTimer, rendered, advances,
                   mounted, db, calls, alerts, beat, pollClock>>

\* a timeout whose duration has passed calls handleNext
DueTimerFire(k) ==
    /\ k \in 1..Len(timers)
    /\ timers[k].duration = 0
    /\ FireState(k)
    /\ advances' = advances + 1
    /\ UNCHANGED <<elapsed, db, calls, alerts, beat>>

\* setInterval(checkSchedule, 2000)
DuePollTick == elapsed % 2000 = 0 /\ elapsed > 0 /\ PollTick

\* the devices snapshot that follows the player's own heartbeat write
HeartbeatEcho == PushDevices(state.devices)

NextTimed ==
    \/ Tick
    \/ \E k \in 1..Len(timers) : DueTimerFire(k)
    \/ DuePollTick
    \/ HeartbeatEcho

SpecTimed == InitTimed /\ [][NextTimed]_vars

\* C12 (as claimed): a playlist of three image items of 5 s each has advanced
\* exactly 3 times after 16 s and is back at index 0, whatever poll ticks and
\* heartbeat echoes happened in between.
C12_ThreeAdvancesIn16s ==
    elapsed = 16 * 1000 => advances = 3 /\ currentMediaIndex = 0

-----------------------------------------------------------------------------
(* Properties of the schedule lookup *)

\* the device has an identity and no forced assignment
NoForcedAssignment ==
    /\ deviceId # Null
    /\ \A i \in 1..Len(state.devices) :
          state.devices[i].id = deviceId => state.devices[i].assignedPlaylistId = Null

\* checkSchedule has run since the store or the clock last changed
Fresh == last.op \in {"poll", "pushPlaylists", "pushDevices"}

\* a zero-padded "HH:MM" string as minutes since midnight
MinutesOf(t) ==
    ((CharCode(t[1]) - 1) * 10 + (CharCode(t[2]) - 1)) * 60
        + (CharCode(t[4]) - 1) * 10 + (CharCode(t[5]) - 1)

\* the wall clock as minutes since midnight
NowMinutes == now.hours * 60 + now.minutes

\* C13: for a device without forced assignment a playlist whose
\* schedule.active is false is neither the target nor the active playlist, on
\* every weekday and at every time, also inside its days and window.
C13_InactiveNeverScheduled ==
    NoForcedAssignment =>
        \A j \in 1..Len(state.playlists) :
            ~state.playlists[j].schedule.active
            => /\ targetPlaylist(state, deviceId, now) # state.playlists[j]
               /\ activePlaylist.id # state.playlists[j].id

\* C13 witness: p1 is inactive, today is one of its days and now is inside its
\* window; a poll tick has not selected it
C13_Witness ==
    /\ NoForcedAssignment
    /\ last.op = "poll"
    /\ state.playlists # <<>>
    /\ state.playlists[1].id = "p1"
    /\ ~state.playlists[1].schedule.active
    /\ Includes(state.playlists[1].schedule.days, now.day)
    /\ MinutesOf(state.playlists[1].schedule.startTime) <= NowMinutes
    /\ NowMinutes <= MinutesOf(state.playlists[1].schedule.endTime)
    /\ activePlaylist.id # "p1"

\* C14: for a device without forced assignment, the first playlist of the
\* store, when active on a day that contains today, is the target exactly when
\* startTime <= now <= endTime as times of day, both bounds included; after a
\* re-evaluation it is the active playlist exactly then.
C14_WindowInclusive ==
    (/\ NoForcedAssignment
     /\ state.playlists # <<>>
     /\ state.playlists[1].schedule.active
     /\ Includes(state.playlists[1].schedule.days, now.day))
    => LET p == state.playlists[1]
           inWindow == /\ MinutesOf(p.schedule.startTime) <= NowMinutes
                       /\ NowMinutes <= MinutesOf(p.schedule.endTime)
       IN  /\ (targetPlaylist(state, deviceId, now) = p) <=> inWindow
           /\ Fresh => ((activePlaylist.id = p.id) <=> inWindow)

\* C14 witness: now is exactly the endTime of p1 and a poll tick has p1 active
C14_Witness ==
    /\ NoForcedAssignment
    /\ last.op = "poll"
    /\ state.playlists # <<>>
    /\ state.playlists[1].id = "p1"
    /\ NowMinutes = MinutesOf(state.playlists[1].schedule.endTime)
    /\ activePlaylist.id = "p1"

\* C15: for a device without forced assignment the target is the first
\* playlist, in the order of the collection, that matches day and time; it is
\* the active playlist after a re-evaluation, and one more resolution with the
\* same store and clock selects the same playlist.
C15_FirstMatchWins ==
    NoForcedAssignment =>
        /\ \A j \in 1..Len(state.playlists) :
              (/\ ScheduleMatches(state.playlists[j], now)
               /\ \A i \in 1..(j - 1) : ~ScheduleMatches(state.playlists[i], now))
              => /\ targetPlaylist(state, deviceId, now) = state.playlists[j]
                 /\ Fresh => activePlaylist.id = state.playlists[j].id
        /\ Fresh => checkSchedule(PS, state, now).activePlaylist.id = activePlaylist.id

\* C15 witness: p1 and p2 both match now and a poll tick has p1 active
C15_Witness ==
    /\ NoForcedAssignment
    /\ last.op = "poll"
    /\ Len(state.playlists) = 2
    /\ ScheduleMatches(state.playlists[1], now)
    /\ ScheduleMatches(state.playlists[2], now)
    /\ activePlaylist.id = state.playlists[1].id

\* C16: for a device without forced assignment a playlist whose endTime is
\* before its startTime is neither the target nor the active playlist, at any
\* time on any weekday.
C16_WrappedWindowNeverMatches ==
    NoForcedAssignment =>
        \A j \in 1..Len(state.playlists) :
            MinutesOf(state.playlists[j].schedule.endTime)
                < MinutesOf(state.playlists[j].schedule.startTime)
            => /\ targetPlaylist(state, deviceId, now) # state.playlists[j]
               /\ activePlaylist.id # state.playlists[j].id

\* C16 witness: p1 is active from 22:00 to 06:00 on a day that contains today,
\* now is after 22:00, and a poll tick has not selected p1
C16_Witness ==
    /\ NoForcedAssignment
    /\ last.op = "poll"
    /\ state.playlists # <<>>
    /\ state.playlists[1].id = "p1"
    /\ state.playlists[1].schedule.active
    /\ Includes(state.playlists[1].schedule.days, now.day)
    /\ MinutesOf(state.playlists[1].schedule.endTime)
           < MinutesOf(state.playlists[1].schedule.startTime)
    /\ NowMinutes > MinutesOf(state.playlists[1].schedule.startTime)
    /\ activePlaylist.id # "p1"

-----------------------------------------------------------------------------
(* Properties of the playback engine by kind of media *)

DirectVideo ==
    /\ Playing
    /\ Render(PS, state).mediaType = VIDEO
    /\ Render(PS, state).youtubeId = <<>>

\* the player screen shows a YouTube video
YouTubeVideo == Playing /\ Render(PS, state).youtubeId # <<>>

\* C18: while a direct video is shown without failure no advance timer is
\* pending, and with the active playlist unchanged the index moves only by
\* the video element's ended event.
C18_DirectVideoAdvancesOnEnded ==
    /\ [](DirectVideo => timers = <<>>)
    /\ [][(/\ DirectVideo
           /\ activePlaylist' = activePlaylist
           /\ currentMediaIndex' # currentMediaIndex)
          => last'.op = "ended"]_vars

\* C18 witness: the ended event of a direct video at index 0 has moved the
\* index to 1
C18_Witness ==
    /\ last.op = "ended"
    /\ Active
    /\ Len(activePlaylist.items) = 2
    /\ activePlaylist.items[1].mediaId = "a"
    /\ getMediaById(state, "a") = Mp4A
    /\ currentMediaIndex = 1

\* C19: while a YouTube video is shown, a pending timer has the item's
\* configured duration, no video element is mounted, onVideoEnded would leave
\* the player state as it is, and with the active playlist unchanged the index
\* moves only by the timer.
C19_YouTubeIsTimerDriven ==
    /\ [](YouTubeVideo =>
            /\ \A k \in 1..Len(timers) :
                  timers[k].duration
                      = activePlaylist.items[currentMediaIndex + 1].duration * 1000
            /\ rendered.tag = "iframe"
            /\ onVideoEndedHandler(PS, Render(PS, state)) = PS)
    /\ [][(/\ YouTubeVideo
           /\ activePlaylist' = activePlaylist
           /\ currentMediaIndex' # currentMediaIndex)
          => last'.op = "timer"]_vars

\* C19 witness: a timer has advanced to a YouTube item, whose timer of the
\* item's 5 s (not the media's 30 s) is pending
C19_Witness ==
    /\ last.op = "timer"
    /\ YouTubeVideo
    /\ currentMediaIndex = 1
    /\ Len(timers) = 1
    /\ timers[1].duration = 5 * 1000
    /\ getMediaById(state, "a").duration = 30

-----------------------------------------------------------------------------
(* Timer-driven items under every combination of override and default duration *)

DurationValues == {Undefined, 0, 1, 7}

DurMediaSnapshots ==
    {<<[m EXCEPT !.duration = d]>> : m \in {ImageA, YouTubeA}, d \in DurationValues}

DurPlaylistSnapshots ==
    {<<P1(<<[mediaId |-> "a", duration |-> d]>>)>> : d \in DurationValues}
    \cup {<<P1(<<[mediaId |-> "a", duration |-> d], [mediaId |-> "a", duration |-> e]>>)>> :
             d \in DurationValues, e \in DurationValues}

InitDur ==
    /\ state = [mediaLibrary |-> <<ImageA>>, playlists |-> <<>>, devices |-> <<>>]
    /\ now = Noon
    /\ deviceId \in DeviceIds
    /\ activePlaylist = NoPlaylist
    /\ currentMediaIndex = 0
    /\ mediaError = FALSE
    /\ timers = <<>>
    /\ timerRef = 0
    /\ scheduleTimer = TRUE
    /\ rendered = NoElement
    /\ last = [op |-> "mount", branch |-> "none"]
    /\ elapsed = 0
    /\ advances = 0
    /\ Unregistered

NextDur ==
    \/ \E items \in DurMediaSnapshots : PushMedia(items)
    \/ \E items \in DurPlaylistSnapshots : PushPlaylists(items)
    \/ PollTick
    \/ \E k \in 1..Len(timers) : TimerFire(k)
    \/ onError

SpecDur == InitDur /\ [][NextDur]_vars

\* C20: while a timer-driven item is shown, the render's display duration and
\* the duration of a pending timer are 1000 times the item's override seconds,
\* else the media's default seconds, else 10, where 0 and missing count as
\* absent; they are at least 1000 ms.
C20_DisplayDuration ==
    (Playing /\ shouldUseTimer(Render(PS, state))) =>
        LET item == activePlaylist.items[currentMediaIndex + 1]
            override == item.duration
            default  == getMediaById(state, item.mediaId).duration
            seconds  == IF override \notin {Undefined, 0} THEN override
                        ELSE IF default \notin {Undefined, 0} THEN default
                        ELSE 10
        IN  /\ Render(PS, state).displayDurationMs = seconds * 1000
            /\ Render(PS, state).displayDurationMs >= 1000
            /\ \A k \in 1..Len(timers) :
                  timers[k].duration = seconds * 1000 /\ timers[k].duration >= 1000

\* C20 witness: the item's override is 0 and the media's default is 0, and the
\* pending timer has the 10 s of the fallback
C20_Witness ==
    /\ Playing
    /\ activePlaylist.items[currentMediaIndex + 1].duration = 0
    /\ getMediaById(state, "a").duration = 0
    /\ Len(timers) = 1
    /\ timers[1].duration = 10 * 1000

-----------------------------------------------------------------------------
(* Registration and presence: a player that is set up, reset and unmounted,  *)
(* and the remote calls it and the admin dashboard have in flight.           *)
(* Date.now() is `elapsed`.                                                  *)

\* the store answers the call c in flight (ok) or rejects it (permission
\* denied, unavailable); the function that awaited it goes on
Return(c, ok) ==
    /\ c \in calls
    /\ \E r \in {IF ok THEN serve(db, c, elapsed)
                 ELSE [db |-> db, threw |-> TRUE, next |-> NoCall]} :
        /\ db' = r.db
        /\ calls' = catch(calls, c, r)
        /\ alerts' = alerts + (IF r.threw THEN handleError(c.fn) ELSE 0)
        /\ last' = [op |-> c.fn, branch |-> IF r.threw THEN "threw" ELSE c.pc]
    /\ UNCHANGED <<state, now, deviceId, activePlaylist, currentMediaIndex, mediaError,
                   timers, timerRef, scheduleTimer, rendered, elapsed, advances,
                   mounted, beat, pollClock>>

\* the callback of setInterval(..., 30000): heartbeat(deviceId)
BeatFire ==
    /\ beat.armed
    /\ Cardinality(calls) < MaxCalls
    /\ calls' = calls \cup {heartbeat(deviceId, elapsed)}
    /\ beat' = [beat EXCEPT !.due = HeartbeatMs, !.since = 0]
    /\ last' = [op |-> "beat", branch |-> "-"]
    /\ UNCHANGED <<state, now, deviceId, activePlaylist, currentMediaIndex, mediaError,
                   timers, timerRef, scheduleTimer, rendered, elapsed, advances,
                   mounted, db, alerts, pollClock>>

\* the dashboard's playlist select of a listed device: updateDevicePlaylist
handleAssignPlaylist(id, playlistId) ==
    /\ db[id].id # Null
    /\ Cardinality(calls) < MaxCalls
    /\ alerts < MaxAlerts
    /\ calls' = calls \cup {updateDevicePlaylist(id, playlistId)}
    /\ last' = [op |-> "assign", branch |-> "-"]
    /\ UNCHANGED <<state, now, deviceId, activePlaylist, currentMediaIndex, mediaError,
                   timers, timerRef, scheduleTimer, rendered, elapsed, advances,
                   mounted, db, alerts, beat, pollClock>>

\* the document is deleted in the Firebase console
ConsoleDelete(id) ==
    /\ db[id].id # Null
    /\ db' = [db EXCEPT ![id] = NoDoc]
    /\ last' = [op |-> "delete", branch |-> "-"]
    /\ UNCHANGED <<state, now, deviceId, activePlaylist, currentMediaIndex, mediaError,
                   timers, timerRef, scheduleTimer, rendered, elapsed, advances,
                   mounted, calls, alerts, beat, pollClock>>

\* (mutant) the player signs off when it is unmounted
UnmountSignsOff ==
    /\ mounted
    /\ mounted' = FALSE
    /\ \E tm \in {timerCleanup(Render(PS, state), TM)} :
          timers' = tm.timers /\ timerRef' = tm.timerRef
    /\ scheduleTimer' = FALSE
    /\ beat' = [armed |-> FALSE, due |-> HeartbeatMs, since |-> 0]
    /\ rendered' = NoElement
    /\ last' = [op |-> "unmount", branch |-> "-"]
    /\ db' = [i \in DOMAIN db |->
                 IF i = deviceId /\ db[i].id # Null
                 THEN [db[i] EXCEPT !.status = "offline"] ELSE db[i]]
    /\ UNCHANGED <<state, now, deviceId, activePlaylist, currentMediaIndex, mediaError,
                   elapsed, advances, calls, alerts, pollClock>>

\* PlayerView is unmounted: the cleanups of its effects run
Unmount ==
    /\ mounted
    /\ mounted' = FALSE
    /\ \E tm \in {timerCleanup(Render(PS, state), TM)} :
          timers' = tm.timers /\ timerRef' = tm.timerRef
    /\ scheduleTimer' = FALSE
    /\ beat' = [armed |-> FALSE, due |-> HeartbeatMs, since |-> 0]
    /\ rendered' = NoElement
    /\ last' = [op |-> "unmount", branch |-> "-"]
    /\ UNCHANGED <<state, now, deviceId, activePlaylist, currentMediaIndex, mediaError,
                   elapsed, advances, db, calls, alerts, pollClock>>

\* the devices snapshot that follows a change of the collection
SnapshotDevices == Mirror(db) # state.devices /\ PushDevices(Mirror(db))

InitDevice ==
    /\ state = [mediaLibrary |-> <<ImageB>>, playlists |-> <<P2>>, devices |-> <<>>]
    /\ now = Noon
    /\ deviceId \in {Null} \cup DeviceIds
    /\ activePlaylist = NoPlaylist
    /\ currentMediaIndex = 0
    /\ mediaError = FALSE
    /\ timers = <<>>
    /\ timerRef = 0
    /\ scheduleTimer = (deviceId # Null)
    /\ rendered = NoElement
    /\ last = [op |-> "mount", branch |-> IF deviceId # Null THEN "none" ELSE "-"]
    /\ elapsed = 0
    /\ advances = 0
    /\ mounted = TRUE
    \* no document, or one that was registered and assigned playlist p2 before
    /\ db \in {[i \in DeviceIds |-> NoDoc],
              [i \in DeviceIds |-> [newDevice(i, "Auto-Registered", 0)
                                       EXCEPT !.assignedPlaylistId = "p2"]]}
    /\ calls = IF deviceId = Null THEN {} ELSE heartbeatEffect({}, deviceId, 0)
    /\ alerts = 0
    /\ beat = [armed |-> deviceId # Null, due |-> HeartbeatMs, since |-> 0]
    /\ pollClock = [due |-> PollMs, since |-> 0]

NextDevice ==
    \/ \E newId \in DeviceIds : handleSaveDeviceId(newId)
    \/ handleResetDevice
    \/ Unmount
    \/ \E c \in calls, ok \in BOOLEAN : Return(c, ok)
    \/ BeatFire
    \/ \E id \in DeviceIds : handleAssignPlaylist(id, "p2")
    \/ \E id \in DeviceIds : ConsoleDelete(id)
    \/ SnapshotDevices
    \/ PollTick
    \/ \E k \in 1..Len(timers) : TimerFire(k)

SpecDevice == InitDevice /\ [][NextDevice]_vars

\* C21 (as claimed): a write of registerDevice to a device id that has a
\* document when the write is applied leaves the document's name, location
\* and assignedPlaylistId as they were, whatever other registrations of the
\* id and admin assignments are in flight.
C21_RegistrationNeverClobbers ==
    [][\A id \in DeviceIds :
          (/\ last'.op = "registerDevice"
           /\ last'.branch \in {"setDoc", "updateDoc"}
           /\ db[id].id # Null)
          => /\ db'[id].name = db[id].name
             /\ db'[id].location = db[id].location
             /\ db'[id].assignedPlaylistId = db[id].assignedPlaylistId]_vars

\* C22: when registerDevice's setDoc is applied for an id that has no
\* document, the registry afterwards holds a document under that id with that
\* id, the name "Device <id>", the location 'Unknown' or 'Auto-Registered',
\* status online and no assigned playlist, and no other document changes.
C22_FirstRegistrationCreatesDefaults ==
    [][\A id \in DeviceIds :
          (/\ last'.op = "registerDevice"
           /\ last'.branch = "setDoc"
           /\ \E c \in calls \ calls' : c.id = id
           /\ db[id].id = Null)
          => /\ db'[id].id = id
             /\ db'[id].name = <<"Device ", id>>
             /\ db'[id].location \in {"Unknown", "Auto-Registered"}
             /\ db'[id].status = "online"
             /\ db'[id].assignedPlaylistId = Null
             /\ \A other \in DeviceIds \ {id} : db'[other] = db[other]]_vars

\* C22 witness: the player was set up with an id the registry did not know,
\* and the registration of the save handler has created the document
C22_Witness ==
    /\ deviceId = "d1"
    /\ last.op = "registerDevice"
    /\ last.branch = "setDoc"
    /\ db["d1"].id = "d1"
    /\ db["d1"].location = "Unknown"
    /\ db["d1"].assignedPlaylistId = Null
    /\ state.devices = <<>>

-----------------------------------------------------------------------------
(* Presence over 45 s, in steps of 15 s, while the playlist becomes active   *)
(* and the shown item fails                                                  *)

\* 15 s pass; a heartbeat that is due is called before more time passes
TickDevice ==
    /\ elapsed < 3 * 15000
    /\ beat.armed => beat.due >= 15000
    /\ elapsed' = elapsed + 15000
    /\ beat' = IF beat.armed
               THEN [beat EXCEPT !.due = beat.due - 15000, !.since = beat.since + 15000]
               ELSE beat
    /\ last' = [op |-> "tick", branch |-> "-"]
    /\ UNCHANGED <<state, now, deviceId, activePlaylist, currentMediaIndex, mediaError,
                   timers, timerRef, scheduleTimer, rendered, advances,
                   mounted, db, calls, alerts, pollClock>>

\* the heartbeat interval is due
DueBeatFire == beat.due = 0 /\ BeatFire

InitBeat ==
    /\ state = [mediaLibrary |-> <<ImageB>>, playlists |-> <<P2>>, devices |-> <<>>]
    /\ now = Noon
    /\ deviceId \in {Null} \cup DeviceIds
    /\ activePlaylist = NoPlaylist
    /\ currentMediaIndex = 0
    /\ mediaError = FALSE
    /\ timers = <<>>
    /\ timerRef = 0
    /\ scheduleTimer = (deviceId # Null)
    /\ rendered = NoElement
    /\ last = [op |-> "mount", branch |-> IF deviceId # Null THEN "none" ELSE "-"]
    /\ elapsed = 0
    /\ advances = 0
    /\ Unregistered

NextBeat ==
    \/ \E newId \in DeviceIds : handleSaveDeviceId(newId)
    \/ handleResetDevice
    \/ \E c \in calls, ok \in BOOLEAN : Return(c, ok)
    \/ DueBeatFire
    \/ TickDevice
    \/ PollTick
    \/ \E k \in 1..Len(timers) : TimerFire(k)
    \/ onError

SpecBeat == InitBeat /\ [][NextBeat]_vars

\* C23: while the identity is set the heartbeat interval is armed and the
\* last heartbeat call is at most 30 s old; the step that establishes the
\* identity and every firing of the interval, which happens exactly 30 s after
\* the call before, put a heartbeat call {lastPing: now, status: online} in
\* flight, whether or not a playlist is active or the shown item has failed.
C23_HeartbeatEvery30s ==
    [][/\ deviceId' # Null
          => /\ beat'.armed
             /\ beat'.since + beat'.due = HeartbeatMs
             /\ beat'.since <= HeartbeatMs
       /\ (deviceId' # Null /\ (deviceId = Null \/ last'.op = "beat"))
          => /\ [fn |-> "heartbeat", coll |-> "devices", pc |-> "updateDoc", id |-> deviceId',
                 data |-> [lastPing |-> elapsed', status |-> "online"]] \in calls'
             /\ beat'.since = 0
       /\ last'.op = "beat" => beat.since = HeartbeatMs]_vars

\* C23 witness: 30 s after the set-up the interval has fired and its heartbeat
\* is in flight, while the shown item has failed
C23_Witness ==
    /\ deviceId = "d1"
    /\ last.op = "beat"
    /\ elapsed = HeartbeatMs
    /\ heartbeat("d1", HeartbeatMs) \in calls
    /\ activePlaylist # NoPlaylist
    /\ mediaError

\* C24: a call of heartbeat or registerDevice that is rejected (no document
\* to update, permission denied, unavailable) shows no alert and changes
\* neither the registry nor the mirrors, the player's state, the pending
\* advance timer or the mounted element; and no heartbeat, rejected or not,
\* creates a document for an id that has none.
C24_PresenceFailuresSwallowed ==
    [][/\ (last'.op \in {"registerDevice", "heartbeat"} /\ last'.branch = "threw")
          => /\ db' = db
             /\ alerts' = alerts
             /\ state' = state
             /\ deviceId' = deviceId
             /\ activePlaylist' = activePlaylist
             /\ currentMediaIndex' = currentMediaIndex
             /\ mediaError' = mediaError
             /\ timers' = timers
             /\ timerRef' = timerRef
             /\ rendered' = rendered
       /\ last'.op = "heartbeat"
          => \A id \in DeviceIds : db[id].id = Null => db'[id].id = Null]_vars

\* C24 witness: a heartbeat was rejected because the device has no document,
\* while a playlist is active and its advance timer is pending
C24_Witness ==
    /\ deviceId = "d1"
    /\ last.op = "heartbeat"
    /\ last.branch = "threw"
    /\ db["d1"].id = Null
    /\ activePlaylist # NoPlaylist
    /\ timerRef # 0

\* C25: once the device is reset or PlayerView is unmounted, no advance
\* timeout, no schedule poll interval and no heartbeat interval is armed, and
\* until an identity is set again no step is a callback of one of them.
C25_TeardownDisarmsTimers ==
    [][/\ (deviceId' = Null \/ ~mounted')
          => /\ timers' = <<>>
             /\ timerRef' = 0
             /\ ~scheduleTimer'
             /\ ~beat'.armed
       /\ (deviceId = Null \/ ~mounted)
          => last'.op \notin {"timer", "poll", "beat"}]_vars

\* C25 witness: the device was reset while a playlist was playing with its
\* advance timer pending
C25_Witness ==
    /\ last.op = "reset"
    /\ deviceId = Null
    /\ activePlaylist # NoPlaylist
    /\ ~mediaError
    /\ timers = <<>>

\* C26 (as claimed): after a re-evaluation, a player whose device id has no
\* record in the devices mirror has no active playlist and shows no media
\* element, also when a playlist's schedule matches the current time.
C26_UnresolvableDeviceAwaitsContent ==
    (/\ deviceId # Null
     /\ Fresh
     /\ \A i \in 1..Len(state.devices) : state.devices[i].id # deviceId)
    => /\ activePlaylist = NoPlaylist
       /\ rendered = NoElement

\* C27: a push of one collection replaces that mirror in one step and leaves
\* the other two mirrors as they were, and the re-evaluation the push causes
\* resolves the target on the three mirrors as they are after the push.
C27_PushReplacesOneMirror ==
    [][/\ last'.op = "pushMedia"
          => state'.playlists = state.playlists /\ state'.devices = state.devices
       /\ last'.op = "pushPlaylists"
          => state'.mediaLibrary = state.mediaLibrary /\ state'.devices = state.devices
       /\ last'.op = "pushDevices"
          => state'.mediaLibrary = state.mediaLibrary /\ state'.playlists = state.playlists
       /\ (last'.op \in {"pushMedia", "pushPlaylists", "pushDevices"} /\ deviceId' # Null)
          => /\ activePlaylist'.id = targetPlaylist(state', deviceId', now').id
             /\ activePlaylist'.items = targetPlaylist(state', deviceId', now').items]_vars

\* C27 witness: a devices push has assigned p2 while the catalog and two
\* playlists were in the mirrors, and p2 is active instead of the scheduled p1
C27_Witness ==
    /\ deviceId = "d1"
    /\ last.op = "pushDevices"
    /\ state.devices = <<Device("d1", "p2")>>
    /\ state.mediaLibrary # <<>>
    /\ Len(state.playlists) = 2
    /\ ScheduleMatches(state.playlists[1], now)
    /\ activePlaylist.id = "p2"

\* C28: after a poll tick, whatever was pushed and however the clock moved
\* before it, the active playlist has the id and the items of the target
\* resolved on the mirrors and the time of that tick (none if there is none).
C28_PollReachesTarget ==
    last.op = "poll"
    => /\ activePlaylist.id = targetPlaylist(state, deviceId, now).id
       /\ activePlaylist.items = targetPlaylist(state, deviceId, now).items

\* C28 witness: with nothing pushed since the clock moved, a poll tick found
\* another playlist to be the target (only the clock makes a poll tick change
\* the identity) and made p2 the active playlist
C28_Witness ==
    /\ last.op = "poll"
    /\ last.branch = "identity"
    /\ activePlaylist.id = "p2"
    /\ Len(state.playlists) = 2

-----------------------------------------------------------------------------
(* The schedule poll in time: steps of one second, during which the wall    *)
(* clock may cross a window boundary, while pushes restart the interval.    *)
(* The run has no horizon, so `elapsed` is not counted.                     *)

\* one second passes and the wall clock reads t; a poll that is due fires
\* before more time passes
TickPoll(t) ==
    /\ deviceId # Null
    /\ pollClock.due >= 1000
    /\ pollClock' = [due |-> pollClock.due - 1000, since |-> pollClock.since + 1000]
    /\ now' = t
    /\ last' = [op |-> "tick", branch |-> "-"]
    /\ UNCHANGED <<state, deviceId, activePlaylist, currentMediaIndex, mediaError,
                   timers, timerRef, scheduleTimer, rendered, elapsed, advances,
                   mounted, db, calls, alerts, beat>>

\* the poll interval is due
DuePoll == pollClock.due = 0 /\ PollTick

InitPoll ==
    /\ state = [mediaLibrary |-> <<ImageA, ImageB>>, playlists |-> <<>>, devices |-> <<>>]
    /\ now \in ClockValues
    /\ deviceId \in DeviceIds
    /\ activePlaylist = NoPlaylist
    /\ currentMediaIndex = 0
    /\ mediaError = FALSE
    /\ timers = <<>>
    /\ timerRef = 0
    /\ scheduleTimer = TRUE
    /\ rendered = NoElement
    /\ last = [op |-> "mount", branch |-> "none"]
    /\ elapsed = 0
    /\ advances = 0
    /\ Unregistered

NextPoll ==
    \/ \E t \in ClockValues : TickPoll(t)
    \/ DuePoll
    \/ \E items \in FairPlaylistSnapshots \cup {<<>>, <<P2>>} : PushPlaylists(items)
    \/ \E items \in DeviceSnapshots : PushDevices(items)
    \/ \E k \in 1..Len(timers) : TimerFire(k)

SpecPoll == InitPoll /\ [][NextPoll]_vars

\* C29: while the identity is set the poll interval is armed, checkSchedule
\* last ran at most 2 s ago and the interval is due no later than 2 s after
\* that run, also when pushes restart the interval; so the active playlist
\* differs from the target only while less than one poll interval has passed
\* since the last run, after the wall clock crossed a boundary.
C29_ReEvaluatedEvery2s ==
    deviceId # Null
    => /\ scheduleTimer
       /\ pollClock.since + pollClock.due = PollMs
       /\ pollClock.since <= PollMs
       /\ pollClock.since = 0
          => activePlaylist.id = targetPlaylist(state, deviceId, now).id

\* C29 witness: two seconds after checkSchedule last ran the interval is due;
\* meanwhile the clock has left the window of the playlist that is still active
C29_Witness ==
    /\ deviceId = "d1"
    /\ last.op = "tick"
    /\ pollClock.due = 0
    /\ pollClock.since = PollMs
    /\ activePlaylist # NoPlaylist
    /\ targetPlaylist(state, deviceId, now) = NoPlaylist

-----------------------------------------------------------------------------
(* The admin dashboard: a browser without a PlayerView, whose provider      *)
(* mirrors the three collections while the operator's mutations are in      *)
(* flight                                                                   *)

\* the operator adds or removes a media item, or saves or removes a playlist
CatalogCall(c) ==
    /\ c \in CatalogCalls
    /\ Cardinality(calls) < MaxCalls
    /\ alerts < MaxAlerts
    /\ calls' = calls \cup {c}
    /\ last' = [op |-> "mutate", branch |-> "-"]
    /\ UNCHANGED <<state, now, deviceId, activePlaylist, currentMediaIndex, mediaError,
                   timers, timerRef, scheduleTimer, rendered, elapsed, advances,
                   mounted, db, alerts, beat, pollClock>>

InitAdmin ==
    /\ state = [mediaLibrary |-> <<>>, playlists |-> <<>>, devices |-> <<>>]
    /\ now = Noon
    /\ deviceId = Null
    /\ activePlaylist = NoPlaylist
    /\ currentMediaIndex = 0
    /\ mediaError = FALSE
    /\ timers = <<>>
    /\ timerRef = 0
    /\ scheduleTimer = FALSE
    /\ rendered = NoElement
    /\ last = [op |-> "mount", branch |-> "-"]
    /\ elapsed = 0
    /\ advances = 0
    /\ mounted = FALSE
    /\ db = [i \in DeviceIds |-> newDevice(i, "Auto-Registered", 0)]
    /\ calls = {}
    /\ alerts = 0
    /\ beat = [armed |-> FALSE, due |-> HeartbeatMs, since |-> 0]
    /\ pollClock = [due |-> PollMs, since |-> 0]

NextAdmin ==
    \/ \E c \in CatalogCalls : CatalogCall(c)
    \/ \E id \in DeviceIds, p \in {Null, "p2"} : handleAssignPlaylist(id, p)
    \/ \E c \in calls, ok \in BOOLEAN : Return(c, ok)
    \/ \E id \in DeviceIds : ConsoleDelete(id)
    \/ \E items \in FairMediaSnapshots : PushMedia(items)
    \/ \E items \in FairPlaylistSnapshots : PushPlaylists(items)
    \/ SnapshotDevices

SpecAdmin == InitAdmin /\ [][NextAdmin]_vars

\* C30: when a call of addMedia, removeMedia, savePlaylist, removePlaylist or
\* updateDevicePlaylist is rejected, one alert is shown, the call is no longer
\* in flight and no call is issued in its place, and the three mirrors and
\* the registry are as before.
C30_FailedMutationAlertsOnce ==
    [][(/\ last'.op \in {"addMedia", "removeMedia", "savePlaylist", "removePlaylist",
                         "updateDevicePlaylist"}
        /\ last'.branch = "threw")
       => /\ alerts' = alerts + 1
          /\ calls' \subseteq calls
          /\ Cardinality(calls') = Cardinality(calls) - 1
          /\ state' = state
          /\ db' = db]_vars

\* C30 witness: a savePlaylist was rejected, the operator saw one alert, and
\* the playlists mirror still holds what the last snapshot pushed
C30_Witness ==
    /\ ~mounted
    /\ last.op = "savePlaylist"
    /\ last.branch = "threw"
    /\ alerts = 1
    /\ calls = {}
    /\ state.playlists # <<>>

-----------------------------------------------------------------------------
(* A playlist with a video of every kind of URL *)

\* the URLs an operator gives a video: the two YouTube forms, and MP4 files
\* https://youtu.be/jNQXAC9kVRw
OtherYouTubeUrl ==
    <<"h", "t", "t", "p", "s", ":", "/", "/", "y", "o", "u", "t", "u", ".", "b", "e", "/",
      "j", "N", "Q", "X", "A", "C", "9", "k", "V", "R", "w">>

VideoUrls ==
    {\* https://www.youtube.com/watch?v=dQw4w9WgXcQ
     <<"h", "t", "t", "p", "s", ":", "/", "/", "w", "w", "w", ".", "y", "o", "u", "t", "u",
     "b", "e", ".", "c", "o", "m", "/", "w", "a", "t", "c", "h", "?", "v", "=", "d", "Q",
     "w", "4", "w", "9", "W", "g", "X", "c", "Q">>,
     \* https://youtu.be/dQw4w9WgXcQ
     YouTubeUrl,
     OtherYouTubeUrl,
     \* http://x.co/a.mp4
     Mp4Url,
     \* http://x.co/v/holiday.mp4
     <<"h", "t", "t", "p", ":", "/", "/", "x", ".", "c", "o", "/", "v", "/", "h", "o", "l",
     "i", "d", "a", "y", ".", "m", "p", "4">>,
     \* http://x.co/embed/m.mp4
     <<"h", "t", "t", "p", ":", "/", "/", "x", ".", "c", "o", "/", "e", "m", "b", "e", "d",
     "/", "m", ".", "m", "p", "4">>}

InitUrl ==
    /\ state = [mediaLibrary |-> <<>>, playlists |-> <<>>, devices |-> <<>>]
    /\ now = Noon
    /\ deviceId \in DeviceIds
    /\ activePlaylist = NoPlaylist
    /\ currentMediaIndex = 0
    /\ mediaError = FALSE
    /\ timers = <<>>
    /\ timerRef = 0
    /\ scheduleTimer = TRUE
    /\ rendered = NoElement
    /\ last = [op |-> "mount", branch |-> "none"]
    /\ elapsed = 0
    /\ advances = 0
    /\ Unregistered

NextUrl ==
    \/ \E u \in VideoUrls : PushMedia(<<[Mp4A EXCEPT !.url = u], ImageB>>)
    \/ \E items \in FairPlaylistSnapshots : PushPlaylists(items)
    \/ HeartbeatEcho
    \/ PollTick
    \/ \E k \in 1..Len(timers) : TimerFire(k)
    \/ onVideoEnded
    \/ onError

SpecUrl == InitUrl /\ [][NextUrl]_vars

\* C31 (as claimed): for a video of the catalog, getYouTubeId returns
\* dQw4w9WgXcQ for the watch?v= and the youtu.be form of that video, and
\* returns no id for a URL that ends in .mp4 and does not name YouTube, so
\* that such a video is never rendered as a YouTube frame.
C31_YouTubeIdExtraction ==
    LET id == <<"d", "Q", "w", "4", "w", "9", "W", "g", "X", "c", "Q">>
        EndsWith(u, t) == Len(u) >= Len(t) /\ SubSeq(u, Len(u) - Len(t) + 1, Len(u)) = t
        Contains(u, t) == \E i \in 1..(Len(u) - Len(t) + 1) : SubSeq(u, i, i + Len(t) - 1) = t
    IN  \A k \in 1..Len(state.mediaLibrary) :
           LET u == state.mediaLibrary[k].url
           IN  /\ (Contains(u, <<"y", "o", "u", "t", "u">>) /\ EndsWith(u, id))
                  => getYouTubeId(u) = id
               /\ (EndsWith(u, <<".", "m", "p", "4">>) /\ ~Contains(u, <<"y", "o", "u", "t", "u">>))
                  => /\ getYouTubeId(u) = <<>>
                     /\ (Active /\ Render(PS, state).currentMedia.url = u) => rendered.tag # "iframe"

\* C32: while the current item exists and has failed, exactly one advance
\* timer is pending and it is the 3000 ms one, whatever the kind of the
\* media (image, YouTube, direct video) and the configured durations.
C32_FailedHasSkipTimer ==
    (Active /\ mediaError /\ Render(PS, state).currentMedia # NoMedia)
    => /\ Len(timers) = 1
       /\ timerRef = 1
       /\ timers[1].duration = ErrorSkipMs

\* C32 witness: a direct video, which plays without a timer, has failed and
\* the 3000 ms timer is pending
C32_Witness ==
    /\ Active
    /\ mediaError
    /\ last.op = "error"
    /\ Render(PS, state).currentMedia.type = VIDEO
    /\ Render(PS, state).youtubeId = <<>>
    /\ Len(timers) = 1
    /\ timers[1].duration = ErrorSkipMs

\* C33: the step that establishes a device identity leaves the engine either
\* without an active playlist or at index 0 with the failure flag clear:
\* nothing of the playback of an identity that was reset before is carried
\* into the new one.
C33_NewIdentityStartsFresh ==
    (last.op = "save" /\ activePlaylist # NoPlaylist)
    => (currentMediaIndex = 0 /\ ~mediaError)

\* ---------------------------------------------------------------------------
\* Reset and re-registration of a playing device (SpecReset)
\* ---------------------------------------------------------------------------

InitReset ==
    /\ state = [mediaLibrary |-> <<ImageA, ImageB>>,
                playlists |-> <<P1(<<[mediaId |-> "a", duration |-> 5],
                                     [mediaId |-> "b", duration |-> 5]>>)>>,
                devices |-> <<>>]
    /\ now = Noon
    /\ deviceId = Null
    /\ activePlaylist = NoPlaylist
    /\ currentMediaIndex = 0
    /\ mediaError = FALSE
    /\ timers = <<>>
    /\ timerRef = 0
    /\ scheduleTimer = FALSE
    /\ rendered = NoElement
    /\ last = [op |-> "mount", branch |-> "-"]
    /\ elapsed = 0
    /\ advances = 0
    /\ Unregistered

NextReset ==
    \/ \E newId \in DeviceIds : handleSaveDeviceId(newId)
    \/ handleResetDevice
    \/ \E c \in calls, ok \in BOOLEAN : Return(c, ok)
    \/ SnapshotDevices
    \/ PollTick
    \/ \E k \in 1..Len(timers) : TimerFire(k)
    \/ onError

SpecReset == InitReset /\ [][NextReset]_vars

\* C34: a device's document disappears from the registry only by a deletion
\* made in the console: no step of the player (save, reset, a registration or
\* heartbeat call being served, a poll, a timeout) removes one, and the reset
\* leaves the whole registry as it is.
C34_PlayerNeverDeletesDevice ==
    [][/\ (\E id \in DeviceIds : db[id].id # Null /\ db'[id].id = Null)
          => last'.op = "delete"
       /\ (deviceId # Null /\ deviceId' = Null) => db' = db]_vars

\* C34 witness: the identity was reset and the device's document is still
\* in the registry
C34_Witness ==
    /\ last.op = "reset"
    /\ deviceId = Null
    /\ \E id \in DeviceIds : db[id].id # Null

\* C35: whenever the active playlist has at least one item the current index
\* is a position of it: 0 <= index < number of items.
C35_IndexInRange ==
    (activePlaylist # NoPlaylist /\ Len(activePlaylist.items) >= 1)
    => (currentMediaIndex >= 0 /\ currentMediaIndex < Len(activePlaylist.items))

\* C35 witness: the playlist was edited while its second item was shown and
\* the index still points at the second of two items
C35_Witness ==
    /\ activePlaylist # NoPlaylist
    /\ last.branch = "content"
    /\ Len(activePlaylist.items) = 2
    /\ currentMediaIndex = 1

\* ---------------------------------------------------------------------------
\* Heartbeats and assignments on one device document (SpecMerge)
\* ---------------------------------------------------------------------------

InitMerge == InitBeat /\ deviceId \in DeviceIds

NextMerge ==
    \/ \E c \in calls, ok \in BOOLEAN : Return(c, ok)
    \/ DueBeatFire
    \/ TickDevice
    \/ \E id \in DeviceIds, p \in {Null, "p2"} : handleAssignPlaylist(id, p)
    \/ SnapshotDevices
    \/ PollTick
    \/ \E k \in 1..Len(timers) : TimerFire(k)

SpecMerge == InitMerge /\ [][NextMerge]_vars

\* C36: when a heartbeat and an assignment of the same existing device
\* document are both in flight, serving them in either order gives the same
\* document: lastPing and status are the heartbeat's, assignedPlaylistId is
\* the assignment's, and name and location are the ones it had.
C36_HeartbeatAndAssignCommute ==
    \A h \in calls, a \in calls :
        (/\ h.fn = "heartbeat"
         /\ a.fn = "updateDevicePlaylist"
         /\ h.id = a.id
         /\ db[h.id].id # Null)
        => LET ha == serve(serve(db, h, elapsed).db, a, elapsed)
               ah == serve(serve(db, a, elapsed).db, h, elapsed)
           IN  /\ ~ha.threw
               /\ ~ah.threw
               /\ ha.db = ah.db
               /\ ha.db[h.id].lastPing = h.data.lastPing
               /\ ha.db[h.id].status = "online"
               /\ ha.db[h.id].assignedPlaylistId = a.data.assignedPlaylistId
               /\ ha.db[h.id].name = db[h.id].name
               /\ ha.db[h.id].location = db[h.id].location
               /\ ha.db[h.id].id = db[h.id].id

\* C36 witness: the device's document exists, and a heartbeat with a newer
\* lastPing and an assignment that changes its playlist are in flight together
C36_Witness ==
    /\ db["d1"].id # Null
    /\ \E h \in calls, a \in calls :
          /\ h.fn = "heartbeat"
          /\ a.fn = "updateDevicePlaylist"
          /\ h.data.lastPing > db["d1"].lastPing
          /\ a.data.assignedPlaylistId # db["d1"].assignedPlaylistId

\* ---------------------------------------------------------------------------
\* Pushes and polls while an advance timer runs down (SpecEcho)
\* ---------------------------------------------------------------------------

NextEcho ==
    \/ Tick
    \/ \E k \in 1..Len(timers) : DueTimerFire(k)
    \/ DuePollTick
    \/ HeartbeatEcho
    \/ \E u \in {YouTubeUrl, OtherYouTubeUrl, Mp4Url} :
          PushMedia(<<[Mp4A EXCEPT !.url = u], ImageB>>)
    \/ \E items \in FairPlaylistSnapshots : PushPlaylists(items)

SpecEcho == InitUrl /\ [][NextEcho]_vars

\* C37 (as stated): a poll tick or a push after which the active playlist has
\* the id and the items it had and the current item has the media id, the
\* kind (image, YouTube, direct video) and the computed duration it had,
\* leaves the pending advance timer as it was.
C37_UnrelatedPushKeepsTimer ==
    [][\A r \in {Render(PS, state)} :
       \A r1 \in {Render([deviceId |-> deviceId', activePlaylist |-> activePlaylist',
                          currentMediaIndex |-> currentMediaIndex',
                          mediaError |-> mediaError'], state')} :
       (/\ last'.op \in {"poll", "pushMedia", "pushPlaylists", "pushDevices"}
        /\ Active
        /\ activePlaylist'.id = activePlaylist.id
        /\ activePlaylist'.items = activePlaylist.items
        /\ r.currentMedia # NoMedia
        /\ r1.mediaId = r.mediaId
        /\ r1.mediaType = r.mediaType
        /\ (r1.youtubeId = <<>>) = (r.youtubeId = <<>>)
        /\ r1.displayDurationMs = r.displayDurationMs)
       => (timers' = timers /\ timerRef' = timerRef)]_vars

\* C37 (amended): such a poll tick or push leaves the pending advance timer
\* as it was when, in addition, the YouTube id extracted from the current
\* media's URL is the one it was.
C37_UnrelatedPushKeepsTimerSameVideo ==
    [][\A r \in {Render(PS, state)} :
       \A r1 \in {Render([deviceId |-> deviceId', activePlaylist |-> activePlaylist',
                          currentMediaIndex |-> currentMediaIndex',
                          mediaError |-> mediaError'], state')} :
       (/\ last'.op \in {"poll", "pushMedia", "pushPlaylists", "pushDevices"}
        /\ Active
        /\ activePlaylist'.id = activePlaylist.id
        /\ activePlaylist'.items = activePlaylist.items
        /\ r.currentMedia # NoMedia
        /\ r1.mediaId = r.mediaId
        /\ r1.mediaType = r.mediaType
        /\ r1.youtubeId = r.youtubeId
        /\ r1.displayDurationMs = r.displayDurationMs)
       => (timers' = timers /\ timerRef' = timerRef)]_vars

\* C37 witness: the devices push of a heartbeat arrived while a YouTube item
\* was shown and part of its display time had passed, and the advance timer
\* still has the time that remained
C37_Witness ==
    /\ last.op = "pushDevices"
    /\ Active
    /\ Render(PS, state).youtubeId # <<>>
    /\ Len(timers) = 1
    /\ timerRef = 1
    /\ timers[1].duration > 0
    /\ timers[1].duration < Render(PS, state).displayDurationMs

\* C38: every device document of the registry, and every device of the
\* mirrored collection, has the stored status "online": no step writes
\* another value.
C38_StoredStatusStaysOnline ==
    /\ \A id \in DeviceIds : db[id].id # Null => db[id].status = "online"
    /\ \A k \in 1..Len(state.devices) : state.devices[k].status = "online"

\* C38 witness: the player was unmounted, none of its calls is in flight any
\* more, and its document still says "online"
C38_Witness ==
    /\ ~mounted
    /\ calls = {}
    /\ last.op = "unmount"
    /\ \E id \in DeviceIds : db[id].id # Null /\ db[id].status = "online"

=============================================================================
